---- MODULE Spec2Model ----
(***************************************************************************)
(* Model of the plugin notifier: the persistent state cache (StateCache), *)
(* the sequential delivery pipeline (processAllPluginsSequentially) and   *)
(* the per-record classification of the delta engine (computeDelta).      *)
(*                                                                         *)
(* A process run is load -> fetch -> deliver each record -> save.  The    *)
(* file system holds the canonical cache file and its temporary sibling.  *)
(* The process may be killed between any two steps (Crash).               *)
(***************************************************************************)
EXTENDS Integers, Sequences, FiniteSets, TLC

(***************************************************************************)
(* Bounds of the model.                                                    *)
(***************************************************************************)
MaxLen == 2
MaxRuns == 2

\* Successful sends of one key are counted up to this number.
MaxCount == 2
\* Longest list computeDelta is called with.
MaxPlugins == 3

(***************************************************************************)
(* Program constants.                                                      *)
(***************************************************************************)
STATE_VERSION == 1
MAX_ATTACHMENT_BYTES == 8000000
ONLY_CS_ATTACHMENTS == TRUE
DEFAULT_CONCURRENCY == 6
RETRY_ATTEMPTS == 3

\* JavaScript `undefined` for a string-valued and for a number-valued slot.
None == "<undefined>"
NoNum == -1

Truthy(s) == s # None /\ s # ""

(***************************************************************************)
(* Plugin records (IndexedPlugin) the catalogs can deliver.                *)
(***************************************************************************)
\* An optional list (categories): undefined, or a list of strings.
NoCats == [defined |-> FALSE, list |-> <<>>]
Cats(list) == [defined |-> TRUE, list |-> list]

\* An optional RepositoryReference: undefined, or an object with its names.
NoRepo == [defined |-> FALSE, full_name |-> None, name |-> None]
Repo(fullName, name) == [defined |-> TRUE, full_name |-> fullName, name |-> name]

\* The extension map `extra`: a function from property names to values.
NoExtra == [k \in {} |-> ""]

Plugin(name, url, path, sha, size, repo) ==
    [plugin_name |-> name,
     plugin_author |-> None,
     plugin_version |-> None,
     plugin_description |-> None,
     plugin_resource_id |-> None,
     categories |-> NoCats,
     file |-> [raw_url |-> url, path |-> path, sha |-> sha, size |-> size],
     repository |-> Repo(repo, None),
     extra |-> NoExtra]

PAlpha == Plugin("Alpha", "https://h/alpha.cs", "alpha.cs", "sha-a", 10, "o/alpha")
PReadme == Plugin("Readme", "https://h/readme.md", "README.md", None, NoNum, "o/beta")
PNoUrl == Plugin("Gamma", None, "gamma.cs", "sha-g", 30, None)

Catalog == {PAlpha, PReadme, PNoUrl}

\* rawUrl.toLowerCase().endsWith(".cs")
EndsWithCs(url) == url \in {"https://h/alpha.cs"}

PluginLists == UNION {[1..n -> Catalog] : n \in 0..MaxLen}

\* Variant: the repository's short name is not consulted.
pluginKey_SkipsName(plugin) ==
    IF Truthy(plugin.file.raw_url)
    THEN plugin.file.raw_url
    ELSE LET repository ==
                 IF plugin.repository.full_name # None THEN plugin.repository.full_name
                 ELSE "repository"
             path == IF plugin.file.path # None THEN plugin.file.path ELSE "file"
         IN  repository \o "::" \o path

\* utils/plugin-key.ts:15-22
pluginKey(plugin) ==
    IF Truthy(plugin.file.raw_url)
    THEN plugin.file.raw_url
    ELSE LET repository ==
                 IF plugin.repository.full_name # None THEN plugin.repository.full_name
                 ELSE IF plugin.repository.name # None THEN plugin.repository.name
                 ELSE "repository"
             path == IF plugin.file.path # None THEN plugin.file.path ELSE "file"
         IN  repository \o "::" \o path

(***************************************************************************)
(* Cache entries, the in-memory StateFile and the file on disk.            *)
(* An entry is a function from property names to values.  An entry built   *)
(* by the pipeline owns five properties, some of them undefined; an entry  *)
(* parsed from JSON owns only the properties that were defined.            *)
(***************************************************************************)
NumFields == {"fileSize", "notifiedAt"}
Undef(f) == IF f \in NumFields THEN NoNum ELSE None
EntryFields == {"key", "notifiedAt", "contentHash", "fileSha", "fileSize", "etag", "lastModified"}

Field(entry, f) == IF f \in DOMAIN entry THEN entry[f] ELSE Undef(f)

SameEntry(e1, e2) == \A f \in EntryFields : Field(e1, f) = Field(e2, f)

SameEntries(m1, m2) ==
    /\ DOMAIN m1 = DOMAIN m2
    /\ \A k \in DOMAIN m1 : SameEntry(m1[k], m2[k])

NoEntries == [k \in {} |-> 0]

EMPTY_STATE == [entries |-> NoEntries, version |-> STATE_VERSION, updatedAt |-> 0]

\* Files: absent, unparsable bytes, or a JSON document.
FileAbsent == [k |-> "absent", version |-> 0, updatedAt |-> 0, entries |-> NoEntries]
FileGarbage == [k |-> "garbage", version |-> 0, updatedAt |-> 0, entries |-> NoEntries]

\* Variant: the serialiser also loses the content hash.
ToJsonEntry_DropsHash(entry) ==
    [f \in {g \in DOMAIN entry : entry[g] # Undef(g)} \ {"contentHash"} |-> entry[f]]

\* JSON.stringify omits the properties whose value is undefined.
ToJsonEntry(entry) ==
    [f \in {g \in DOMAIN entry : entry[g] # Undef(g)} |-> entry[f]]

\* fs.writeJson(path, payload): the document written for a StateFile.
ToJson(state) ==
    [k |-> "json", version |-> state.version, updatedAt |-> state.updatedAt,
     entries |-> [key \in DOMAIN state.entries |-> ToJsonEntry(state.entries[key])]]

\* fs.readJson(path): the StateFile parsed from a JSON document.
FromJson(file) ==
    [entries |-> file.entries, version |-> file.version, updatedAt |-> file.updatedAt]

\* Variant: load() without the version comparison of cache.ts:35.
LoadState_NoVersionCheck(file) ==
    IF file.k # "json" THEN [threw |-> FALSE, state |-> EMPTY_STATE]
    ELSE [threw |-> FALSE, state |-> FromJson(file)]

\* StateCache.load(): the resulting in-memory state and whether load threw.
LoadState(file) ==
    IF file.k = "absent" THEN [threw |-> FALSE, state |-> EMPTY_STATE]
    ELSE IF file.k # "json" THEN [threw |-> FALSE, state |-> EMPTY_STATE]
    ELSE IF FromJson(file).version # STATE_VERSION THEN [threw |-> FALSE, state |-> EMPTY_STATE]
    ELSE [threw |-> FALSE, state |-> FromJson(file)]

\* StateCache.set(entry)
SetEntry(state, entry) ==
    [state EXCEPT !.entries =
        [k \in DOMAIN state.entries \cup {entry.key} |->
            IF k = entry.key THEN entry ELSE state.entries[k]]]

\* StateCache.save(): the payload built before the write.
SavePayload(state, now) == [state EXCEPT !.updatedAt = now]

\* StateCache.entries() mapped to keys.
EntryKeys(state) == {Field(state.entries[k], "key") : k \in DOMAIN state.entries}

(***************************************************************************)
(* State.                                                                  *)
(***************************************************************************)
VARIABLES
    disk,          \* the canonical cache file STATE.PATH
    tmp,           \* the temporary file STATE.PATH + ".tmp"
    pc,            \* position of the process: idle, loop, wait0, done, aborted,
                   \* rejected (failed before the pipeline), crashed
    run,           \* number of process runs started so far (also the clock)
    plugins,       \* the list handed to processAllPluginsSequentially
    mem,           \* StateCache.state of the running process
    processedKeys, \* the Set built at cli.ts:53
    pendingCount,  \* pending.length
    index,         \* cli.ts:69
    uploaded,      \* cli.ts:70
    cursor,        \* number of list elements the for-of loop has taken
    task,          \* per list position (0 = the run itself): phase and locals
    hist,          \* history variables used only to state properties
    webhookUrl,    \* DISCORD.WEBHOOK_URL of the process environment
    send,          \* one call of sendPluginWebhook: its locals and its effects
    fn,            \* one evaluation of a pure function: its input and result
    delta,         \* one call of computeDelta: its tasks, probes and result
    http           \* one call of executeWithRetry: its attempts and its outcome

vars == <<disk, tmp, pc, run, plugins, mem, processedKeys, pendingCount,
          index, uploaded, cursor, task, hist, webhookUrl, send, fn, delta, http>>

\* The variables of the delivery pipeline and of the file system.
pipelineVars == <<disk, tmp, pc, run, plugins, mem, processedKeys, pendingCount,
                  index, uploaded, cursor, task, hist>>

Tasks == 0..MaxLen

IdleTask ==
    [ph |-> "none",
     dl |-> "none",      \* getFile: not called ("none"), rejected ("failed"), resolved ("ok")
     buf |-> NoNum,      \* attachmentBuffer: its byte length
     hash |-> None,      \* contentHash
     att |-> NoNum,      \* byte length of the attachment passed to sendPluginWebhook
     payload |-> EMPTY_STATE]

AllKeys == {pluginKey(p) : p \in Catalog}

\* Cache files a first run may find: none, unreadable bytes, a file of an
\* older schema version, or a file written by an earlier delivery.
EarlierEntries == ("https://h/readme.md" :> [key |-> "https://h/readme.md", notifiedAt |-> 0])
FileOldVersion == [k |-> "json", version |-> 0, updatedAt |-> 0, entries |-> EarlierEntries]
FileEarlier == [k |-> "json", version |-> STATE_VERSION, updatedAt |-> 0, entries |-> EarlierEntries]
InitialFiles == {FileAbsent, FileGarbage, FileOldVersion, FileEarlier}

\* Results of getFile: failure, or a body of the given byte length.
DownloadFailed == -2
DownloadResults == {DownloadFailed, 5, MAX_ATTACHMENT_BYTES + 1}

\* sha256(buffer), injective on the modelled bodies.
sha256(len) == IF len = 5 THEN "hash-5" ELSE "hash-big"

\* Values of DISCORD_WEBHOOK_URL: unset (config.ts:27 yields "") or set.
WebhookUrls == {"", "https://discord/webhook"}

\* No call of sendPluginWebhook is in progress.
IdleSend ==
    [ph |-> "idle",      \* idle, posting, sleeping, returned, threw
     attempt |-> 0,      \* the loop variable of webhook.ts:94
     attachment |-> [name |-> None, bytes |-> NoNum],
     posts |-> <<>>,     \* the bodies handed to httpClient.post, in order
     log |-> <<>>,       \* per POST that settled: its answer and the sleep that followed
     err |-> None]       \* what the call threw

\* No function is being evaluated.
IdleFn == [op |-> "none"]

\* computeDelta has not been called; `concurrency` is NET.CONCURRENCY.
IdleDelta ==
    [ph |-> "idle",
     concurrency |-> DEFAULT_CONCURRENCY,
     plugins |-> <<>>,       \* the list passed to computeDelta
     cache |-> <<>>,         \* the cache map passed to computeDelta: key -> entry
     st |-> <<>>,            \* per list position: where its task is
     attempt |-> <<>>,       \* per list position: `attempt` of executeWithRetry
     meta |-> <<>>,          \* per list position: what headMeta returned
     failed |-> <<>>,        \* per list position: whether head() rejected
     results |-> <<>>,       \* the array Promise.all resolves with
     completed |-> <<>>,     \* the list positions in the order the tasks settled
     out |-> <<>>]           \* the array computeDelta resolved with

\* executeWithRetry before it is called.
IdleHttp ==
    [ph |-> "idle",      \* idle, request (operation() pending), sleep, returned, thrown
     attempt |-> 0,      \* the parameter `attempt` of the current invocation
     requests |-> 0,     \* calls of operation() so far
     errors |-> <<>>,    \* the errors operation() rejected with, in order
     sleeps |-> <<>>]    \* the delays passed to sleep(), in order

InitHist(file) ==
    [sentCount |-> [k \in AllKeys |-> IF file.k = "json" /\ k \in DOMAIN file.entries THEN 1 ELSE 0],
     okKeys |-> {},          \* keys whose send returned successfully in this run
     failedSend |-> {},      \* list positions whose send threw in this run
     saveFailed |-> FALSE,   \* some save() threw in this run
     gapKeys |-> {},         \* keys in flight between send success and save completion at a crash
     loadIntact |-> TRUE,    \* no load so far had to discard an unusable file
     loadedFrom |-> FileAbsent,  \* the file the last load() read
     startEntries |-> NoEntries, \* the entries the last load() produced
     loadThrew |-> FALSE,
     prev |-> [sameList |-> FALSE, keys0 |-> {}, crashed |-> FALSE],  \* the run before this one
     synced |-> FALSE,       \* a save() completed and no set() followed it
     malformed |-> FALSE,    \* a catalog fetched by this run was malformed
     oldSnap |-> file,       \* canonical file when the last save() was called
     newSnap |-> file,       \* document the last save() set out to write
     sendLog |-> <<>>,       \* list positions in the order their send was called
     okPos |-> {},           \* list positions whose send returned successfully in this run
     setCalls |-> 0,         \* calls of state.set() in this run
     saveCalls |-> 0,        \* calls of state.save() in this run
     dry |-> [ran |-> FALSE,     \* dryRunAction was called
              fetched |-> [threw |-> FALSE, items |-> <<>>, malformed |-> FALSE],
              pending |-> {}]]   \* the list positions it reported as pending

Init ==
    /\ disk \in InitialFiles
    /\ tmp = FileAbsent
    /\ pc = "idle"
    /\ run = 0
    /\ plugins = <<>>
    /\ mem = EMPTY_STATE
    /\ processedKeys = {}
    /\ pendingCount = 0
    /\ index = 0
    /\ uploaded = 0
    /\ cursor = 0
    /\ task = [t \in Tasks |-> IdleTask]
    /\ hist = InitHist(disk)
    /\ webhookUrl \in WebhookUrls
    /\ send = IdleSend
    /\ fn = IdleFn
    /\ delta = IdleDelta
    /\ http = IdleHttp

NPlugins == Len(plugins)
HasUrl(plugin) == Truthy(plugin.file.raw_url)

\* cli.ts:54-57, also dryRunAction
Pending(list, keys) ==
    {i \in 1..Len(list) : HasUrl(list[i]) /\ pluginKey(list[i]) \notin keys}

\* Variant: the loop never consults the processed set.
IsProcessed_Never(key) == FALSE

\* cli.ts:78
IsProcessed(key) == key \in processedKeys

\* Variant: the loop body does not await its calls.
Settled_NoAwait(i) == TRUE

\* The awaited promises of the loop body for list position i have settled.
Settled(i) == task[i].ph \in {"skipped", "ok", "failed"}

\* save() entered by task t: payload built, writeJson(tempPath, payload) issued.
CallSave(t, state, now, tk) ==
    [tk EXCEPT ![t].ph = "save_write", ![t].payload = SavePayload(state, now)]

\* A file whose write did not finish.
FilePartial == [k |-> "partial", version |-> 0, updatedAt |-> 0, entries |-> NoEntries]

\* load() had to discard a file that was present but unusable.
Unusable(file) == file.k = "garbage" \/ (file.k = "json" /\ file.version # STATE_VERSION)

FreshTasks == [t \in Tasks |-> IdleTask]

(***************************************************************************)
(* Upstream catalogs (api.ts) and the merge engine (merger.ts).            *)
(* A raw catalog is the JSON value the transport returned.  `t` is the     *)
(* JSON type of a value; `rec` of a raw item is the IndexedPlugin its      *)
(* properties normalise to (api.ts:47-77).                                 *)
(***************************************************************************)
RawItem(t, fileT, rec) == [t |-> t, file |-> [t |-> fileT], rec |-> rec]
RawIndex(t, itemsT, elems, count) ==
    [t |-> t, items |-> [t |-> itemsT, elems |-> elems], count |-> count]

GoodItem(rec) == RawItem("object", "object", rec)
GoodIndex(recs) == RawIndex("object", "array", [i \in DOMAIN recs |-> GoodItem(recs[i])], NoNum)

\* api.ts:24-26
isRecord(value) == value.t = "object"

\* Variant: the file reference of an item is not validated.
toPluginIndex_NoFileCheck(value) ==
    IF ~isRecord(value) \/ value.items.t # "array"
    THEN [threw |-> TRUE, count |-> 0, items |-> <<>>]
    ELSE [threw |-> FALSE,
          count |-> IF value.count # NoNum THEN value.count ELSE Len(value.items.elems),
          items |-> [i \in DOMAIN value.items.elems |-> value.items.elems[i].rec]]

\* api.ts:28-84: assertHasItems and toPluginIndex
toPluginIndex(value) ==
    IF ~isRecord(value) \/ value.items.t # "array"
    THEN [threw |-> TRUE, count |-> 0, items |-> <<>>]
    ELSE IF \E i \in DOMAIN value.items.elems :
               ~isRecord(value.items.elems[i]) \/ ~isRecord(value.items.elems[i].file)
    THEN [threw |-> TRUE, count |-> 0, items |-> <<>>]
    ELSE [threw |-> FALSE,
          count |-> IF value.count # NoNum THEN value.count ELSE Len(value.items.elems),
          items |-> [i \in DOMAIN value.items.elems |-> value.items.elems[i].rec]]

\* Variant: an empty enriched value counts as a value.
mergeField_EmptyWins(primary, secondary) ==
    IF secondary = None THEN primary ELSE secondary

\* merger.ts mergeField
mergeField(primary, secondary) ==
    IF secondary = None \/ secondary = "" THEN primary ELSE secondary

\* Variant: an enriched category list replaces the base list even when it
\* is empty.
mergePlugin_EmptyCategoriesReplace(existing, incoming) ==
    [plugin_name |-> mergeField(existing.plugin_name, incoming.plugin_name),
     plugin_author |-> mergeField(existing.plugin_author, incoming.plugin_author),
     plugin_version |-> mergeField(existing.plugin_version, incoming.plugin_version),
     plugin_description |-> mergeField(existing.plugin_description, incoming.plugin_description),
     plugin_resource_id |-> mergeField(existing.plugin_resource_id, incoming.plugin_resource_id),
     categories |-> IF incoming.categories.defined
                    THEN incoming.categories ELSE existing.categories,
     file |-> IF Truthy(incoming.file.raw_url) THEN incoming.file ELSE existing.file,
     repository |-> IF incoming.repository.defined THEN incoming.repository
                    ELSE existing.repository,
     extra |-> [k \in DOMAIN existing.extra \cup DOMAIN incoming.extra |->
                   IF k \in DOMAIN incoming.extra THEN incoming.extra[k] ELSE existing.extra[k]]]

\* Variant: the file reference is merged field by field.
mergePlugin_FileFieldwise(existing, incoming) ==
    [plugin_name |-> mergeField(existing.plugin_name, incoming.plugin_name),
     plugin_author |-> mergeField(existing.plugin_author, incoming.plugin_author),
     plugin_version |-> mergeField(existing.plugin_version, incoming.plugin_version),
     plugin_description |-> mergeField(existing.plugin_description, incoming.plugin_description),
     plugin_resource_id |-> mergeField(existing.plugin_resource_id, incoming.plugin_resource_id),
     categories |-> IF incoming.categories.defined /\ Len(incoming.categories.list) # 0
                    THEN incoming.categories ELSE existing.categories,
     file |-> [raw_url |-> mergeField(existing.file.raw_url, incoming.file.raw_url),
               path |-> mergeField(existing.file.path, incoming.file.path),
               sha |-> mergeField(existing.file.sha, incoming.file.sha),
               size |-> IF incoming.file.size = NoNum THEN existing.file.size
                        ELSE incoming.file.size],
     repository |-> IF incoming.repository.defined THEN incoming.repository
                    ELSE existing.repository,
     extra |-> [k \in DOMAIN existing.extra \cup DOMAIN incoming.extra |->
                   IF k \in DOMAIN incoming.extra THEN incoming.extra[k] ELSE existing.extra[k]]]

\* merger.ts mergePlugin
mergePlugin(existing, incoming) ==
    [plugin_name |-> mergeField(existing.plugin_name, incoming.plugin_name),
     plugin_author |-> mergeField(existing.plugin_author, incoming.plugin_author),
     plugin_version |-> mergeField(existing.plugin_version, incoming.plugin_version),
     plugin_description |-> mergeField(existing.plugin_description, incoming.plugin_description),
     plugin_resource_id |-> mergeField(existing.plugin_resource_id, incoming.plugin_resource_id),
     categories |-> IF incoming.categories.defined /\ Len(incoming.categories.list) # 0
                    THEN incoming.categories ELSE existing.categories,
     file |-> IF Truthy(incoming.file.raw_url) THEN incoming.file ELSE existing.file,
     repository |-> IF incoming.repository.defined THEN incoming.repository
                    ELSE existing.repository,
     extra |-> [k \in DOMAIN existing.extra \cup DOMAIN incoming.extra |->
                   IF k \in DOMAIN incoming.extra THEN incoming.extra[k] ELSE existing.extra[k]]]

\* A JavaScript Map: its keys in insertion order and the value of each key.
EmptyMap == [keys |-> <<>>, val |-> [k \in {} |-> 0]]
MapHas(m, key) == key \in DOMAIN m.val

\* Map.prototype.set: a new key is appended, a present key keeps its place
\* and takes the new value.
MapSet(m, key, value) ==
    [keys |-> IF MapHas(m, key) THEN m.keys ELSE Append(m.keys, key),
     val |-> [k \in DOMAIN m.val \cup {key} |-> IF k = key THEN value ELSE m.val[k]]]

MapValues(m) == [i \in DOMAIN m.keys |-> m.val[m.keys[i]]]

\* merger.ts mergeIndices, first loop: the map seeded from the base items.
RECURSIVE SeedMap(_, _)
SeedMap(m, items) ==
    IF items = <<>> THEN m
    ELSE SeedMap(MapSet(m, pluginKey(Head(items)), Head(items)), Tail(items))

\* merger.ts mergeIndices, second loop: the enriched items merged in.
RECURSIVE MergeInto(_, _)
MergeInto(m, items) ==
    IF items = <<>> THEN m
    ELSE LET plugin == Head(items)
             key == pluginKey(plugin)
         IN  MergeInto(MapSet(m, key, IF MapHas(m, key) THEN mergePlugin(m.val[key], plugin)
                                      ELSE plugin),
                       Tail(items))

\* The Map of mergeIndices after both loops.
MergedMap(oxide, crawled) == MergeInto(SeedMap(EmptyMap, oxide.items), crawled.items)

\* merger.ts mergeIndices
mergeIndices(oxide, crawled) ==
    LET items == MapValues(MergedMap(oxide, crawled))
    IN  [threw |-> FALSE, count |-> Len(items), items |-> items]

\* The deleted-repositories list: null, or its repositories.
NoDeleted == [defined |-> FALSE, repositories |-> <<>>]
Deleted(repositories) == [defined |-> TRUE, repositories |-> repositories]

\* String.prototype.toLowerCase on the modelled names.
toLowerCase(str) == IF str = "O/Alpha" THEN "o/alpha" ELSE str

\* Variant: the names are compared as they are written.
filterDeleted_CaseSensitive(items, deleted) ==
    IF ~deleted.defined THEN items
    ELSE LET banned == {deleted.repositories[i] : i \in DOMAIN deleted.repositories}
             kept(plugin) ==
                 IF Truthy(plugin.repository.full_name)
                 THEN plugin.repository.full_name \notin banned
                 ELSE TRUE
         IN  SelectSeq(items, kept)

\* api.ts filterDeleted
filterDeleted(items, deleted) ==
    IF ~deleted.defined THEN items
    ELSE LET banned == {toLowerCase(deleted.repositories[i]) : i \in DOMAIN deleted.repositories}
             kept(plugin) ==
                 IF Truthy(plugin.repository.full_name)
                 THEN toLowerCase(plugin.repository.full_name) \notin banned
                 ELSE TRUE
         IN  SelectSeq(items, kept)

\* cli.ts:24-43 fetchAndMergeIndices, given what the three requests returned.
fetchAndMergeIndices(oxide, crawled, deleted) ==
    LET o == toPluginIndex(oxide)
        c == toPluginIndex(crawled)
    IN  IF o.threw \/ c.threw THEN [threw |-> TRUE, items |-> <<>>]
        ELSE [threw |-> FALSE, items |-> filterDeleted(mergeIndices(o, c).items, deleted)]

\* Raw catalogs the transport may return: well-formed ones of at most one
\* item, and the malformed shapes.
RawIndices ==
    {GoodIndex(<<>>)}
    \cup {GoodIndex(<<p>>) : p \in Catalog}
    \cup {RawIndex("string", "undefined", <<>>, NoNum),
          RawIndex("object", "undefined", <<>>, NoNum),
          RawIndex("object", "array", <<RawItem("string", "undefined", PAlpha)>>, NoNum),
          RawIndex("object", "array", <<RawItem("object", "undefined", PAlpha)>>, NoNum),
          RawIndex("object", "array", <<GoodItem(PReadme), RawItem("object", "array", PAlpha)>>, NoNum)}

DeletedLists == {NoDeleted, Deleted(<<"O/Alpha">>)}

(***************************************************************************)
(* notifyAction: load(), fetchAndMergeIndices(), then the synchronous      *)
(* prefix of processAllPluginsSequentially (cli.ts:53-70).                 *)
(***************************************************************************)
RunPipeline(list, malformed) ==
    /\ pc \in {"idle", "done", "aborted", "rejected", "crashed"}
    /\ run < MaxRuns
    /\ LET now == run + 1
           ld == LoadState(disk)
           keys == EntryKeys(ld.state)
           pend == Pending(list, keys)
           saving == ~ld.threw /\ pend = {}
           h1 == [hist EXCEPT
                    !.okKeys = {}, !.failedSend = {}, !.saveFailed = FALSE,
                    !.loadIntact = @ /\ ~Unusable(disk),
                    !.loadedFrom = disk,
                    !.startEntries = ld.state.entries,
                    !.loadThrew = ld.threw,
                    !.prev = [sameList |-> list = plugins, keys0 |-> DOMAIN hist.startEntries,
                              crashed |-> pc = "crashed"],
                    !.synced = FALSE,
                    !.malformed = malformed,
                    !.oldSnap = disk,
                    !.newSnap = IF saving THEN ToJson(SavePayload(ld.state, now)) ELSE disk,
                    !.sendLog = <<>>,
                    !.okPos = {},
                    !.setCalls = 0,
                    !.saveCalls = IF saving THEN 1 ELSE 0]
       IN  /\ run' = now
           /\ plugins' = list
           /\ mem' = ld.state
           /\ processedKeys' = keys
           /\ pendingCount' = Cardinality(pend)
           /\ index' = 0
           /\ uploaded' = 0
           /\ cursor' = 0
           /\ hist' = h1
           /\ pc' = IF ld.threw THEN "aborted" ELSE IF saving THEN "wait0" ELSE "loop"
           /\ task' = IF saving THEN CallSave(0, ld.state, now, FreshTasks) ELSE FreshTasks
    /\ UNCHANGED <<webhookUrl, send, fn, delta, http, disk, tmp>>

\* load() followed by processAllPluginsSequentially(list, state), as the
\* callers of the exported function do.
StartRun(list) == RunPipeline(list, FALSE)

\* A catalog that is not an object with an items array, or that has an
\* item without an object-valued file.
MalformedIndex(value) ==
    \/ value.t # "object"
    \/ value.items.t # "array"
    \/ \E i \in DOMAIN value.items.elems :
          value.items.elems[i].t # "object" \/ value.items.elems[i].file.t # "object"

\* cli.ts:176-179: load() resolved, fetchAndMergeIndices() rejected; the
\* rejection leaves notifyAction and reaches the catch of runCli.
FetchRejected(malformed) ==
    /\ pc \in {"idle", "done", "aborted", "rejected", "crashed"}
    /\ run < MaxRuns
    /\ LET ld == LoadState(disk)
       IN  /\ mem' = ld.state
           /\ hist' = [hist EXCEPT
                         !.okKeys = {}, !.failedSend = {}, !.saveFailed = FALSE,
                         !.loadIntact = @ /\ ~Unusable(disk),
                         !.loadedFrom = disk,
                         !.startEntries = ld.state.entries,
                         !.loadThrew = ld.threw,
                         !.prev = [sameList |-> FALSE, keys0 |-> DOMAIN hist.startEntries,
                                   crashed |-> pc = "crashed"],
                         !.synced = FALSE,
                         !.malformed = malformed,
                         !.oldSnap = disk,
                         !.newSnap = disk,
                         !.sendLog = <<>>,
                         !.okPos = {},
                         !.setCalls = 0,
                         !.saveCalls = 0]
    /\ run' = run + 1
    /\ pc' = "rejected"
    /\ plugins' = <<>>
    /\ processedKeys' = {}
    /\ pendingCount' = 0
    /\ index' = 0
    /\ uploaded' = 0
    /\ cursor' = 0
    /\ task' = FreshTasks
    /\ UNCHANGED <<webhookUrl, send, fn, delta, http, disk, tmp>>

\* What fetchAndMergeIndices makes of the answers to its three requests,
\* and whether one of the two catalogs was malformed.
FetchResult(oxide, crawled, deleted) ==
    [threw |-> fetchAndMergeIndices(oxide, crawled, deleted).threw,
     items |-> fetchAndMergeIndices(oxide, crawled, deleted).items,
     malformed |-> MalformedIndex(oxide) \/ MalformedIndex(crawled)]

FetchResults ==
    {FetchResult(oxide, crawled, deleted) :
        oxide \in RawIndices, crawled \in RawIndices, deleted \in DeletedLists}

\* cli.ts:176-181 notifyAction, given the outcome of its fetch.
NotifyAction(fetched) ==
    IF fetched.threw
    THEN FetchRejected(fetched.malformed)
    ELSE Len(fetched.items) <= MaxLen /\ RunPipeline(fetched.items, fetched.malformed)

\* Variant: the preview does not consult the cache.
DryRunAction_IgnoresCache(fetched) ==
    /\ pc = "idle"
    /\ ~hist.dry.ran
    /\ Len(fetched.items) <= MaxLen
    /\ hist' = [hist EXCEPT !.dry = [ran |-> TRUE, fetched |-> fetched,
                                     pending |-> Pending(fetched.items, {})]]
    /\ UNCHANGED <<webhookUrl, send, fn, delta, http, disk, tmp, pc, run, plugins, mem, processedKeys,
                   pendingCount, index, uploaded, cursor, task>>

\* cli.ts:186-204 dryRunAction, given the outcome of its fetch: a StateCache
\* of its own is loaded, the pending records are listed; when the fetch
\* rejects nothing is listed.
DryRunAction(fetched) ==
    /\ pc = "idle"
    /\ ~hist.dry.ran
    /\ Len(fetched.items) <= MaxLen
    /\ LET keys == EntryKeys(LoadState(disk).state)
       IN  hist' = [hist EXCEPT !.dry = [ran |-> TRUE, fetched |-> fetched,
                                        pending |-> Pending(fetched.items, keys)]]
    /\ UNCHANGED <<webhookUrl, send, fn, delta, http, disk, tmp, pc, run, plugins, mem, processedKeys,
                   pendingCount, index, uploaded, cursor, task>>

\* cli.ts:248-260 runCli: process.exitCode once the command has ended.
ExitCode == IF pc \in {"aborted", "rejected"} THEN 1 ELSE 0

(***************************************************************************)
(* The for-of loop of processAllPluginsSequentially (cli.ts:71-165).       *)
(* The loop takes the next element only when the awaits of the previous    *)
(* iteration have settled.                                                 *)
(***************************************************************************)
LoopReady == pc = "loop" /\ cursor < NPlugins /\ (cursor = 0 \/ Settled(cursor))

\* cli.ts:94
allowsAttachment(rawUrl) == ~ONLY_CS_ATTACHMENTS \/ EndsWithCs(rawUrl)

\* Variant: the byte limit is not applied.
safeBuffer_NoLimit(buf) == buf

\* cli.ts:111-112
safeBuffer(buf) == IF buf # NoNum /\ buf <= MAX_ATTACHMENT_BYTES THEN buf ELSE NoNum

\* cli.ts:72-76
SkipNoUrl ==
    /\ LoopReady
    /\ ~HasUrl(plugins[cursor + 1])
    /\ cursor' = cursor + 1
    /\ task' = [task EXCEPT ![cursor + 1].ph = "skipped"]
    /\ UNCHANGED <<webhookUrl, send, fn, delta, http, disk, tmp, pc, run, plugins, mem, processedKeys, pendingCount,
                   index, uploaded, hist>>

\* cli.ts:77-86
SkipCached ==
    /\ LoopReady
    /\ HasUrl(plugins[cursor + 1])
    /\ IsProcessed(pluginKey(plugins[cursor + 1]))
    /\ cursor' = cursor + 1
    /\ task' = [task EXCEPT ![cursor + 1].ph = "skipped"]
    /\ UNCHANGED <<webhookUrl, send, fn, delta, http, disk, tmp, pc, run, plugins, mem, processedKeys, pendingCount,
                   index, uploaded, hist>>

\* cli.ts:88-98 (getFile issued) or cli.ts:88-119 (no download: send issued)
BeginUpload ==
    /\ LoopReady
    /\ HasUrl(plugins[cursor + 1])
    /\ ~IsProcessed(pluginKey(plugins[cursor + 1]))
    /\ LET i == cursor + 1
           download == allowsAttachment(plugins[i].file.raw_url)
       IN  /\ cursor' = i
           /\ index' = index + 1
           /\ task' = [task EXCEPT ![i].ph = IF download THEN "download" ELSE "send"]
           /\ hist' = IF download THEN hist
                      ELSE [hist EXCEPT !.sendLog = Append(@, i)]
    /\ UNCHANGED <<webhookUrl, send, fn, delta, http, disk, tmp, pc, run, plugins, mem, processedKeys, pendingCount, uploaded>>

\* Variant: a rejected getFile rejects the run.
DownloadDone_FailureAborts(i, res) ==
    /\ pc = "loop"
    /\ task[i].ph = "download"
    /\ pc' = IF res = DownloadFailed THEN "aborted" ELSE pc
    /\ task' = [task EXCEPT ![i].ph = IF res = DownloadFailed THEN "failed" ELSE "send",
                            ![i].dl = IF res = DownloadFailed THEN "failed" ELSE "ok",
                            ![i].buf = IF res = DownloadFailed THEN NoNum ELSE res,
                            ![i].hash = IF res = DownloadFailed THEN None ELSE sha256(res),
                            ![i].att = IF res = DownloadFailed THEN NoNum ELSE safeBuffer(res)]
    /\ hist' = IF res = DownloadFailed THEN hist ELSE [hist EXCEPT !.sendLog = Append(@, i)]
    /\ UNCHANGED <<webhookUrl, send, fn, delta, http, disk, tmp, run, plugins, mem, processedKeys, pendingCount,
                   index, uploaded, cursor>>

\* cli.ts:98-119: getFile settles, the hash is computed, send is issued.
DownloadDone(i, res) ==
    /\ pc = "loop"
    /\ task[i].ph = "download"
    /\ task' = [task EXCEPT ![i].ph = "send",
                            ![i].dl = IF res = DownloadFailed THEN "failed" ELSE "ok",
                            ![i].buf = IF res = DownloadFailed THEN NoNum ELSE res,
                            ![i].hash = IF res = DownloadFailed THEN None ELSE sha256(res),
                            ![i].att = IF res = DownloadFailed THEN NoNum ELSE safeBuffer(res)]
    /\ hist' = [hist EXCEPT !.sendLog = Append(@, i)]
    /\ UNCHANGED <<webhookUrl, send, fn, delta, http, disk, tmp, pc, run, plugins, mem, processedKeys, pendingCount,
                   index, uploaded, cursor>>

\* Variant: the entry records an ETag.
NewEntry_WithEtag(plugin, tk, now) ==
    [key |-> pluginKey(plugin),
     notifiedAt |-> now,
     etag |-> "etag-1",
     contentHash |-> tk.hash,
     fileSha |-> plugin.file.sha,
     fileSize |-> IF safeBuffer(tk.buf) # NoNum THEN safeBuffer(tk.buf) ELSE plugin.file.size]

\* cli.ts:129-135
NewEntry(plugin, tk, now) ==
    [key |-> pluginKey(plugin),
     notifiedAt |-> now,
     contentHash |-> tk.hash,
     fileSha |-> plugin.file.sha,
     fileSize |-> IF safeBuffer(tk.buf) # NoNum THEN safeBuffer(tk.buf) ELSE plugin.file.size]

\* Variant: the entry is set but the snapshot is not saved after the record.
SendOk_SaveDeferred(i) ==
    /\ pc = "loop"
    /\ task[i].ph = "send"
    /\ Truthy(webhookUrl)
    /\ mem' = SetEntry(mem, NewEntry(plugins[i], task[i], run))
    /\ task' = [task EXCEPT ![i] = [IdleTask EXCEPT !.ph = "ok"]]
    /\ uploaded' = uploaded + 1
    /\ processedKeys' = processedKeys \cup {pluginKey(plugins[i])}
    /\ hist' = [hist EXCEPT !.okKeys = @ \cup {pluginKey(plugins[i])},
                            !.sentCount[pluginKey(plugins[i])] = IF @ < MaxCount THEN @ + 1 ELSE MaxCount,
                            !.synced = FALSE,
                            !.okPos = @ \cup {i},
                            !.setCalls = @ + 1]
    /\ UNCHANGED <<webhookUrl, send, fn, delta, http, disk, tmp, pc, run, plugins, pendingCount, index, cursor>>

\* cli.ts:119-142: sendPluginWebhook returned; set(entry); save() is called.
SendOk(i) ==
    /\ pc = "loop"
    /\ task[i].ph = "send"
    /\ Truthy(webhookUrl)
    /\ LET entry == NewEntry(plugins[i], task[i], run)
           state == SetEntry(mem, entry)
       IN  /\ mem' = state
           /\ task' = CallSave(i, state, run, task)
           /\ hist' = [hist EXCEPT !.okKeys = @ \cup {entry.key},
                                   !.sentCount[entry.key] = IF @ < MaxCount THEN @ + 1 ELSE MaxCount,
                                   !.synced = FALSE,
                                   !.oldSnap = disk,
                                   !.newSnap = ToJson(SavePayload(state, run)),
                                   !.okPos = @ \cup {i},
                                   !.setCalls = @ + 1,
                                   !.saveCalls = @ + 1]
    /\ UNCHANGED <<webhookUrl, send, fn, delta, http, disk, tmp, pc, run, plugins, processedKeys, pendingCount,
                   index, uploaded, cursor>>

\* Variant: the entry is recorded although the send threw.
SendFail_RecordsEntry(i) ==
    /\ pc = "loop"
    /\ task[i].ph = "send"
    /\ mem' = SetEntry(mem, NewEntry(plugins[i], task[i], run))
    /\ task' = [task EXCEPT ![i] = [IdleTask EXCEPT !.ph = "failed"]]
    /\ hist' = [hist EXCEPT !.failedSend = @ \cup {i}]
    /\ UNCHANGED <<webhookUrl, send, fn, delta, http, disk, tmp, pc, run, plugins, processedKeys, pendingCount,
                   index, uploaded, cursor>>

\* Variant: no catch around the send; the failure rejects the run.
SendFail_Rethrows(i) ==
    /\ pc = "loop"
    /\ task[i].ph = "send"
    /\ pc' = "aborted"
    /\ task' = [task EXCEPT ![i] = [IdleTask EXCEPT !.ph = "failed"]]
    /\ hist' = [hist EXCEPT !.failedSend = @ \cup {i}]
    /\ UNCHANGED <<webhookUrl, send, fn, delta, http, disk, tmp, run, plugins, mem, processedKeys, pendingCount,
                   index, uploaded, cursor>>

\* cli.ts:151-164: sendPluginWebhook threw; logged, the loop continues.
SendFail(i) ==
    /\ pc = "loop"
    /\ task[i].ph = "send"
    /\ task' = [task EXCEPT ![i] = [IdleTask EXCEPT !.ph = "failed"]]
    /\ hist' = [hist EXCEPT !.failedSend = @ \cup {i}]
    /\ UNCHANGED <<webhookUrl, send, fn, delta, http, disk, tmp, pc, run, plugins, mem, processedKeys, pendingCount,
                   index, uploaded, cursor>>

(***************************************************************************)
(* StateCache.save() (cache.ts:75-85), entered by CallSave.                *)
(*   fs.writeJson(tempPath, payload) writes the temporary file;            *)
(*   fs.move(tempPath, STATE.PATH, {overwrite: true}) of fs-extra removes  *)
(*   the destination and then renames the source onto it;                  *)
(*   this.state = payload.                                                 *)
(***************************************************************************)
Alive == pc \in {"loop", "wait0"}

\* The caller's continuation when save() resolves: cli.ts:143-144 for a
\* record, cli.ts:62 / cli.ts:170 for the run itself.
SaveReturned(t) ==
    IF t = 0
    THEN /\ pc' = "done"
         /\ UNCHANGED <<uploaded, processedKeys>>
    ELSE /\ uploaded' = uploaded + 1
         /\ processedKeys' = processedKeys \cup {pluginKey(plugins[t])}
         /\ UNCHANGED pc

\* Variant: the rejection of a record's save() is not caught.
SaveThrew_Rejects(t) == pc' = "aborted"

\* The caller's continuation when save() rejects: the catch at cli.ts:151
\* for a record; no handler for the run itself, so the run rejects and
\* runCli sets the exit code (cli.ts:256-259).
SaveThrew(t) ==
    IF t = 0 THEN pc' = "aborted" ELSE UNCHANGED pc

\* cache.ts:81 completes
WriteTemp(t) ==
    /\ Alive
    /\ task[t].ph = "save_write"
    /\ tmp' = ToJson(task[t].payload)
    /\ task' = [task EXCEPT ![t].ph = "save_move"]
    /\ UNCHANGED <<webhookUrl, send, fn, delta, http, disk, pc, run, plugins, mem, processedKeys, pendingCount,
                   index, uploaded, cursor, hist>>

\* cache.ts:81 rejects (I/O error)
WriteFail(t) ==
    /\ Alive
    /\ task[t].ph = "save_write"
    /\ tmp' = FilePartial
    /\ task' = [task EXCEPT ![t] = [IdleTask EXCEPT !.ph = "failed"]]
    /\ hist' = [hist EXCEPT !.saveFailed = TRUE]
    /\ SaveThrew(t)
    /\ UNCHANGED <<webhookUrl, send, fn, delta, http, disk, run, plugins, mem, processedKeys, pendingCount,
                   index, uploaded, cursor>>

\* cache.ts:82, first half: the destination is removed
MoveRemove(t) ==
    /\ Alive
    /\ task[t].ph = "save_move"
    /\ disk' = FileAbsent
    /\ task' = [task EXCEPT ![t].ph = "save_rename"]
    /\ hist' = [hist EXCEPT !.synced = FALSE]
    /\ UNCHANGED <<webhookUrl, send, fn, delta, http, tmp, pc, run, plugins, mem, processedKeys, pendingCount,
                   index, uploaded, cursor>>

\* cache.ts:82, second half, and cache.ts:83-84: rename, this.state = payload
MoveRename(t) ==
    /\ Alive
    /\ task[t].ph = "save_rename"
    /\ disk' = tmp
    /\ tmp' = FileAbsent
    /\ mem' = task[t].payload
    /\ task' = [task EXCEPT ![t] = [IdleTask EXCEPT !.ph = "ok"]]
    /\ hist' = [hist EXCEPT !.synced = TRUE]
    /\ SaveReturned(t)
    /\ UNCHANGED <<webhookUrl, send, fn, delta, http, run, plugins, pendingCount, index, cursor>>

(***************************************************************************)
(* End of the loop (cli.ts:167-170).                                       *)
(***************************************************************************)
LoopOver == pc = "loop" /\ cursor = NPlugins /\ Settled(cursor)

\* cli.ts:167-168: nothing was uploaded, the state is saved once
FinalSave ==
    /\ LoopOver
    /\ uploaded = 0
    /\ pc' = "wait0"
    /\ task' = CallSave(0, mem, run, task)
    /\ hist' = [hist EXCEPT !.oldSnap = disk, !.newSnap = ToJson(SavePayload(mem, run)),
                            !.saveCalls = @ + 1]
    /\ UNCHANGED <<webhookUrl, send, fn, delta, http, disk, tmp, run, plugins, mem, processedKeys, pendingCount,
                   index, uploaded, cursor>>

\* cli.ts:170
Finish ==
    /\ LoopOver
    /\ uploaded # 0
    /\ pc' = "done"
    /\ UNCHANGED <<webhookUrl, send, fn, delta, http, disk, tmp, run, plugins, mem, processedKeys, pendingCount,
                   index, uploaded, cursor, task, hist>>

(***************************************************************************)
(* The process is killed.  Memory is lost; the files stay as they are,     *)
(* and a temporary file whose write was in progress is left partial.       *)
(***************************************************************************)
InSave(t) == task[t].ph \in {"save_write", "save_move", "save_rename"}

Crash ==
    /\ Alive
    /\ pc' = "crashed"
    /\ tmp' = IF \E t \in Tasks : task[t].ph = "save_write" THEN FilePartial ELSE tmp
    /\ mem' = EMPTY_STATE
    /\ processedKeys' = {}
    /\ pendingCount' = 0
    /\ index' = 0
    /\ uploaded' = 0
    /\ cursor' = 0
    /\ task' = FreshTasks
    /\ hist' = [hist EXCEPT
                  !.gapKeys = @ \cup {pluginKey(plugins[t]) : t \in {u \in 1..NPlugins : InSave(u)}},
                  !.synced = FALSE]
    /\ UNCHANGED <<webhookUrl, send, fn, delta, http, disk, run, plugins>>

Next ==
    \/ \E list \in PluginLists : StartRun(list)
    \/ \E fetched \in FetchResults : NotifyAction(fetched)
    \/ SkipNoUrl
    \/ SkipCached
    \/ BeginUpload
    \/ \E i \in 1..MaxLen, res \in DownloadResults : DownloadDone(i, res)
    \/ \E i \in 1..MaxLen : SendOk(i)
    \/ \E i \in 1..MaxLen : SendFail(i)
    \/ \E t \in Tasks : WriteTemp(t)
    \/ \E t \in Tasks : WriteFail(t)
    \/ \E t \in Tasks : MoveRemove(t)
    \/ \E t \in Tasks : MoveRename(t)
    \/ FinalSave
    \/ Finish
    \/ Crash

Spec == Init /\ [][Next]_vars

\* The dry-run command, then the notify command on the same cache file
\* with the same answers of the upstream.
NotifyAfterDry ==
    /\ hist.dry.ran
    /\ run = 0
    /\ NotifyAction(hist.dry.fetched)

DryNext ==
    \/ \E fetched \in FetchResults : DryRunAction(fetched)
    \/ NotifyAfterDry
    \/ SkipNoUrl
    \/ SkipCached
    \/ BeginUpload
    \/ \E i \in 1..MaxLen, res \in DownloadResults : DownloadDone(i, res)
    \/ \E i \in 1..MaxLen : SendOk(i)
    \/ \E i \in 1..MaxLen : SendFail(i)
    \/ \E t \in Tasks : WriteTemp(t)
    \/ \E t \in Tasks : WriteFail(t)
    \/ \E t \in Tasks : MoveRemove(t)
    \/ \E t \in Tasks : MoveRename(t)
    \/ FinalSave
    \/ Finish

DrySpec == Init /\ [][DryNext]_vars

TypeOK ==
    /\ pc \in {"idle", "loop", "wait0", "done", "aborted", "rejected", "crashed"}
    /\ run \in 0..MaxRuns
    /\ cursor \in 0..NPlugins
    /\ disk.k \in {"absent", "garbage", "json"}
    /\ tmp.k \in {"absent", "partial", "json"}

(***************************************************************************)
(* Delta engine: classification of one record (computeDelta, cache.ts).    *)
(***************************************************************************)
\* Results of headMeta: the headers of interest, undefined when missing.
EmptyMeta == [etag |-> None, lastModified |-> None, contentLength |-> NoNum]
HeadMetas == [etag : {None, "etag-1"}, lastModified : {None, "lm-1"}, contentLength : {NoNum, 5, 10}]

\* cache.ts:214-219
DiffMetadata(meta, plugin) ==
    [etag |-> meta.etag,
     lastModified |-> meta.lastModified,
     contentLength |-> IF meta.contentLength # NoNum THEN meta.contentLength ELSE plugin.file.size]

\* Variant: a content length counts as a reliable marker.
hasReliableMarkers_LengthCounts(meta, plugin) ==
    \/ Truthy(meta.etag) \/ Truthy(meta.lastModified) \/ Truthy(plugin.file.sha)
    \/ meta.contentLength # NoNum

\* cache.ts:147-149
hasReliableMarkers(meta, plugin) ==
    Truthy(meta.etag) \/ Truthy(meta.lastModified) \/ Truthy(plugin.file.sha)

\* Variant: only the ETag and Last-Modified are compared.
unchanged_ValidatorsOnly(meta, plugin, previous) ==
    \/ Truthy(meta.etag) /\ Truthy(Field(previous, "etag")) /\ meta.etag = Field(previous, "etag")
    \/ /\ Truthy(meta.lastModified) /\ Truthy(Field(previous, "lastModified"))
       /\ meta.lastModified = Field(previous, "lastModified")

\* cache.ts:151-168
unchanged(meta, plugin, previous) ==
    \/ Truthy(meta.etag) /\ Truthy(Field(previous, "etag")) /\ meta.etag = Field(previous, "etag")
    \/ /\ Truthy(meta.lastModified) /\ Truthy(Field(previous, "lastModified"))
       /\ meta.lastModified = Field(previous, "lastModified")
    \/ /\ Truthy(plugin.file.sha) /\ Truthy(Field(previous, "fileSha"))
       /\ plugin.file.sha = Field(previous, "fileSha")
    \/ /\ meta.contentLength # NoNum /\ Field(previous, "fileSize") # NoNum
       /\ meta.contentLength = Field(previous, "fileSize")
    \/ /\ plugin.file.size # NoNum /\ Field(previous, "fileSize") # NoNum
       /\ plugin.file.size = Field(previous, "fileSize")

\* Variant: the reliability of the metadata is tested before the cache
\* lookup is consulted.
DeltaOf_ReliabilityFirst(plugin, head, cache) ==
    LET key == pluginKey(plugin)
        meta == DiffMetadata(IF HasUrl(plugin) THEN head ELSE EmptyMeta, plugin)
    IN  IF ~hasReliableMarkers(meta, plugin) THEN "updated"
        ELSE IF key \notin DOMAIN cache THEN "new"
        ELSE IF unchanged(meta, plugin, cache[key]) THEN "unchanged"
        ELSE "updated"

\* cache.ts:192-262: the outcome for one record, given the HEAD result for
\* its URL and the cache map.
DeltaOf(plugin, head, cache) ==
    LET key == pluginKey(plugin)
        meta == DiffMetadata(IF HasUrl(plugin) THEN head ELSE EmptyMeta, plugin)
    IN  IF key \notin DOMAIN cache THEN "new"
        ELSE IF ~hasReliableMarkers(meta, plugin) THEN "updated"
        ELSE IF unchanged(meta, plugin, cache[key]) THEN "unchanged"
        ELSE "updated"

(***************************************************************************)
(* computeDelta (cache.ts:177-267): one call.  Every record is a task of   *)
(* the limiter `limit`; a task of a record with a URL awaits headMeta,     *)
(* whose head() runs executeWithRetry inside the transport's limiter       *)
(* `concurrencyLimit`; Promise.all collects the outcomes by list position. *)
(***************************************************************************)
\* Math.max(1, NET.CONCURRENCY), the size of both limiters.
ConcurrencyLimit(concurrency) == IF concurrency > 1 THEN concurrency ELSE 1

\* The merged catalog: a record that was never notified, a record with a
\* source hash, a record without one, and a record without a URL.
DNew == Plugin("New", "https://h/new.cs", "new.cs", None, NoNum, "o/new")
DHashed == Plugin("Hashed", "https://h/hashed.cs", "hashed.cs", "sha-2", 5, "o/hashed")
DBare == Plugin("Bare", "https://h/bare.cs", "bare.cs", None, 10, "o/bare")
DNoUrl == Plugin("NoUrl", None, "nourl.cs", "sha-4", 30, "o/nourl")
DeltaCatalog == <<DNew, DHashed, DBare, DNoUrl>>

\* The entries of a filled cache map: one for each record but the first.
DeltaEntries ==
    ("https://h/hashed.cs" :>
         [key |-> "https://h/hashed.cs", notifiedAt |-> 0, contentHash |-> "hash-h",
          fileSha |-> "sha-1", fileSize |-> 10, etag |-> "etag-1", lastModified |-> "lm-1"])
    @@ ("https://h/bare.cs" :>
         [key |-> "https://h/bare.cs", notifiedAt |-> 0, contentHash |-> "hash-b",
          fileSize |-> 10, etag |-> "etag-1"])
    @@ ("o/nourl::nourl.cs" :>
         [key |-> "o/nourl::nourl.cs", notifiedAt |-> 0, contentHash |-> "hash-n",
          fileSha |-> "sha-4", fileSize |-> 30])

\* The records of the catalog at the positions in `positions`, in catalog
\* order.
RECURSIVE SubList(_, _)
SubList(positions, upTo) ==
    IF upTo = 0 THEN <<>>
    ELSE IF upTo \in positions THEN Append(SubList(positions, upTo - 1), DeltaCatalog[upTo])
    ELSE SubList(positions, upTo - 1)
DeltaLists ==
    {SubList(positions, Len(DeltaCatalog)) :
        positions \in {ps \in SUBSET DOMAIN DeltaCatalog : Cardinality(ps) <= MaxPlugins}}

\* What headMeta returns for a HEAD request that was answered.
AnsweredMetas ==
    {EmptyMeta,
     [etag |-> "etag-1", lastModified |-> None, contentLength |-> NoNum],
     [etag |-> "etag-2", lastModified |-> None, contentLength |-> NoNum],
     [etag |-> None, lastModified |-> "lm-1", contentLength |-> NoNum],
     [etag |-> None, lastModified |-> None, contentLength |-> 10],
     [etag |-> "etag-2", lastModified |-> None, contentLength |-> 5]}

\* `null`, the outcome of an unchanged record.
Null == [reason |-> "unchanged"]

\* cache.ts:192-262: the DiffItem or null a task returns, given what
\* headMeta returned.
Outcome(plugin, head, cache) ==
    LET key == pluginKey(plugin)
        meta == DiffMetadata(IF HasUrl(plugin) THEN head ELSE EmptyMeta, plugin)
        reason == DeltaOf(plugin, head, cache)
    IN  IF reason = "unchanged" THEN Null
        ELSE [plugin |-> plugin,
              reason |-> reason,
              cacheKey |-> key,
              metadata |-> [etag |-> meta.etag,
                            lastModified |-> meta.lastModified,
                            contentLength |-> meta.contentLength,
                            requiresContentHashCheck |->
                                reason # "new" /\ ~hasReliableMarkers(meta, plugin)],
              hasPrevious |-> reason # "new",
              previous |-> IF reason # "new" /\ key \in DOMAIN cache THEN cache[key]
                           ELSE NoEntries]

Positions(d) == DOMAIN d.plugins

\* The tasks that hold a slot of `limit`, the tasks whose head() holds a
\* slot of `concurrencyLimit`, and the HEAD requests in flight.
ActiveTasks(d) == {i \in Positions(d) : d.st[i] \in {"started", "probing", "sleeping"}}

\* Variant: head() queues at the limiter whose slot its own task holds.
ActiveHeads_SharedLimiter(d) == {i \in Positions(d) : d.st[i] \in {"started", "probing", "sleeping"}}

\* The functions active in `concurrencyLimit`: head() calls whose
\* executeWithRetry has not settled.
ActiveHeads(d) == {i \in Positions(d) : d.st[i] \in {"probing", "sleeping"}}
InFlightProbes(d) == {i \in Positions(d) : d.st[i] = "probing"}

\* Variant: a limiter that never makes a task wait.
SlotFree_Always(activeCount, concurrency) == TRUE

\* p-limit: a queued function is started when fewer than `concurrency`
\* functions are active.
SlotFree(activeCount, concurrency) == activeCount < ConcurrencyLimit(concurrency)

\* The task at position i returns: its outcome is stored at position i.
TaskReturns(d, i, head, headFailed) ==
    [d EXCEPT !.st[i] = "done",
              !.attempt[i] = 0,
              !.meta[i] = head,
              !.failed[i] = headFailed,
              !.results[i] = Outcome(d.plugins[i], head, d.cache),
              !.completed = Append(@, i)]

\* Variant: the rejection of head() leaves headMeta and rejects the task,
\* Promise.all and computeDelta.
HeadRejected_Propagates(d, i) ==
    [d EXCEPT !.ph = "rejected", !.st[i] = "done", !.failed[i] = TRUE]

\* headMeta's catch: the rejection of head() becomes the empty bundle.
HeadRejected(d, i) == TaskReturns(d, i, EmptyMeta, TRUE)

\* Variant: the outcomes are collected in the order the tasks settled.
DeltaResult_CompletionOrder(d) ==
    LET settled == [k \in DOMAIN d.completed |-> d.results[d.completed[k]]]
    IN  SelectSeq(settled, LAMBDA item : item # Null)

\* cache.ts:190 and 266: Promise.all resolves with the outcomes by list
\* position, and the nulls are filtered out.
DeltaResult(d) == SelectSeq(d.results, LAMBDA item : item # Null)

\* computeDelta(plugins, cache) is called: plugins.map hands every record
\* to `limit`.
CallComputeDelta(list, cache) ==
    /\ delta.ph = "idle"
    /\ delta' = [delta EXCEPT !.ph = "running",
                              !.plugins = list,
                              !.cache = cache,
                              !.st = [i \in DOMAIN list |-> "queued"],
                              !.attempt = [i \in DOMAIN list |-> 0],
                              !.meta = [i \in DOMAIN list |-> EmptyMeta],
                              !.failed = [i \in DOMAIN list |-> FALSE],
                              !.results = [i \in DOMAIN list |-> Null]]
    /\ UNCHANGED <<pipelineVars, webhookUrl, send, fn, http>>

\* `limit` starts the next queued task (cache.ts:192-196, 213): a record
\* without a URL is classified at once, a record with one calls headMeta,
\* whose head() queues at `concurrencyLimit`.
StartTask(i) ==
    /\ delta.ph = "running"
    /\ i \in Positions(delta)
    /\ delta.st[i] = "queued"
    /\ \A j \in Positions(delta) : j < i => delta.st[j] # "queued"
    /\ SlotFree(Cardinality(ActiveTasks(delta)), delta.concurrency)
    /\ delta' = IF HasUrl(delta.plugins[i]) THEN [delta EXCEPT !.st[i] = "started"]
                ELSE TaskReturns(delta, i, EmptyMeta, FALSE)
    /\ UNCHANGED <<pipelineVars, webhookUrl, send, fn, http>>

\* `concurrencyLimit` starts the next queued head(): executeWithRetry sends
\* the HEAD request (part_000:122-123).
SendHead(i) ==
    /\ delta.ph = "running"
    /\ i \in Positions(delta)
    /\ delta.st[i] = "started"
    /\ \A j \in Positions(delta) : j < i => delta.st[j] # "started"
    /\ SlotFree(Cardinality(ActiveHeads(delta)), delta.concurrency)
    /\ delta' = [delta EXCEPT !.st[i] = "probing"]
    /\ UNCHANGED <<pipelineVars, webhookUrl, send, fn, http>>

\* The HEAD request is answered: headMeta returns its headers and the task
\* classifies the record.
HeadResponds(i, head) ==
    /\ delta.ph = "running"
    /\ i \in Positions(delta)
    /\ delta.st[i] = "probing"
    /\ delta' = TaskReturns(delta, i, head, FALSE)
    /\ UNCHANGED <<pipelineVars, webhookUrl, send, fn, http>>

\* The HEAD request fails (part_000:62-82): a network error or a 5xx answer
\* is retried after a delay while attempts remain; otherwise head() rejects.
HeadFails(i, retryable) ==
    /\ delta.ph = "running"
    /\ i \in Positions(delta)
    /\ delta.st[i] = "probing"
    /\ delta' = IF delta.attempt[i] + 1 < RETRY_ATTEMPTS /\ retryable
                THEN [delta EXCEPT !.st[i] = "sleeping"]
                ELSE HeadRejected(delta, i)
    /\ UNCHANGED <<pipelineVars, webhookUrl, send, fn, http>>

\* The delay is over: executeWithRetry(operation, nextAttempt) sends the
\* request again.
RetryHead(i) ==
    /\ delta.ph = "running"
    /\ i \in Positions(delta)
    /\ delta.st[i] = "sleeping"
    /\ delta' = [delta EXCEPT !.st[i] = "probing", !.attempt[i] = @ + 1]
    /\ UNCHANGED <<pipelineVars, webhookUrl, send, fn, http>>

\* Every task has returned: Promise.all resolves and computeDelta returns
\* the outcomes that are not null.
ReturnDelta ==
    /\ delta.ph = "running"
    /\ \A i \in Positions(delta) : delta.st[i] = "done"
    /\ delta' = [delta EXCEPT !.ph = "returned", !.out = DeltaResult(delta)]
    /\ UNCHANGED <<pipelineVars, webhookUrl, send, fn, http>>

\* PLUGINS_CONCURRENCY (config.ts:45) is zero, two, or the default.
DeltaInit ==
    /\ disk = FileAbsent
    /\ tmp = FileAbsent
    /\ pc = "idle"
    /\ run = 0
    /\ plugins = <<>>
    /\ mem = EMPTY_STATE
    /\ processedKeys = {}
    /\ pendingCount = 0
    /\ index = 0
    /\ uploaded = 0
    /\ cursor = 0
    /\ task = FreshTasks
    /\ hist = InitHist(FileAbsent)
    /\ webhookUrl = ""
    /\ send = IdleSend
    /\ fn = IdleFn
    /\ delta \in {[IdleDelta EXCEPT !.concurrency = c] : c \in {0, 2, DEFAULT_CONCURRENCY}}
    /\ http = IdleHttp

DeltaNext ==
    \/ \E list \in DeltaLists, cache \in {NoEntries, DeltaEntries} :
           CallComputeDelta(list, cache)
    \/ \E i \in 1..Len(DeltaCatalog) : StartTask(i)
    \/ \E i \in 1..Len(DeltaCatalog) : SendHead(i)
    \/ \E i \in 1..Len(DeltaCatalog), head \in AnsweredMetas : HeadResponds(i, head)
    \/ \E i \in 1..Len(DeltaCatalog), retryable \in BOOLEAN : HeadFails(i, retryable)
    \/ \E i \in 1..Len(DeltaCatalog) : RetryHead(i)
    \/ ReturnDelta

DeltaSpec == DeltaInit /\ [][DeltaNext]_vars

\* The same call where the event loop runs whatever is ready: a limiter
\* with a free slot starts its next queued function, a timer of sleep()
\* fires, a HEAD request is answered or fails, Promise.all resolves.
DeltaFairSpec ==
    /\ DeltaInit
    /\ [][DeltaNext]_vars
    /\ WF_vars(\E i \in 1..Len(DeltaCatalog) : StartTask(i))
    /\ WF_vars(\E i \in 1..Len(DeltaCatalog) : SendHead(i))
    /\ WF_vars(\E i \in 1..Len(DeltaCatalog) :
                  \/ \E head \in AnsweredMetas : HeadResponds(i, head)
                  \/ \E retryable \in BOOLEAN : HeadFails(i, retryable))
    /\ WF_vars(\E i \in 1..Len(DeltaCatalog) : RetryHead(i))
    /\ WF_vars(ReturnDelta)

(***************************************************************************)
(* sendPluginWebhook (webhook.ts:86-132): one call, from the precondition  *)
(* check through the attempts to the return or the throw.                  *)
(***************************************************************************)
MAX_WEBHOOK_ATTEMPTS == 5
BACKOFF_BASE_MS == 500

\* Attachments a caller may pass; the first stands for `undefined`.
NoAttachment == [name |-> None, bytes |-> NoNum]
Attachments ==
    {NoAttachment,
     [name |-> "plugin.cs", bytes |-> 5],
     [name |-> "plugin.cs", bytes |-> MAX_ATTACHMENT_BYTES + 1],
     [name |-> "notes.txt", bytes |-> 5],
     [name |-> "..", bytes |-> 5]}

\* sanitize(name) of sanitize-filename on the modelled names: a name made
\* of dots only becomes empty, the others are left as they are.
Sanitize(name) == IF name = ".." THEN "" ELSE name

\* name.toLowerCase().endsWith(".cs") on the modelled names
NameEndsWithCs(name) == name = "plugin.cs"

\* webhook.ts:68-78
attachmentAllowed(attachment) ==
    IF attachment.bytes > MAX_ATTACHMENT_BYTES THEN FALSE
    ELSE IF ONLY_CS_ATTACHMENTS /\ ~NameEndsWithCs(attachment.name) THEN FALSE
    ELSE TRUE

\* webhook.ts:96-108: the body of one POST.
PostBody(attachment) ==
    IF attachment # NoAttachment /\ Truthy(Sanitize(attachment.name)) /\ attachmentAllowed(attachment)
    THEN [kind |-> "multipart", filename |-> Sanitize(attachment.name), bytes |-> attachment.bytes]
    ELSE [kind |-> "json", filename |-> None, bytes |-> NoNum]

\* Answers of the sink to one POST.  status 0 stands for an error without a
\* response.  retry_after is the number of the answer's body in units of
\* 1/10000 second (NoNum when the body has none).
Answer(status, retryAfter) == [status |-> status, retry_after |-> retryAfter]
AnswerOk == Answer(204, NoNum)
FailureAnswers ==
    {Answer(429, NoNum), Answer(429, 20000), Answer(429, 3505),
     Answer(500, NoNum), Answer(503, NoNum),
     Answer(404, NoNum), Answer(0, NoNum)}

\* Variant: the server-provided duration is ignored.
RetryDelay_IgnoresRetryAfter(retryAfter) == 1000

\* webhook.ts:115-116: Math.ceil((retry_after ?? 1) * 1000), in milliseconds.
RetryDelay(retryAfter) ==
    IF retryAfter = NoNum THEN 1000 ELSE (retryAfter + 9) \div 10

\* Variant: every 4xx and 5xx status is retried.
IsServerError_Any4xx(status) == status >= 400 /\ status < 600

\* webhook.ts:121
IsServerError(status) == status >= 500 /\ status < 600

\* Variant: the loop admits one attempt more.
LoopContinues_OffByOne(attempt) == attempt <= MAX_WEBHOOK_ATTEMPTS

\* webhook.ts:94: the loop condition
LoopContinues(attempt) == attempt < MAX_WEBHOOK_ATTEMPTS

\* webhook.ts:94-108: the loop condition is evaluated and the next POST is
\* issued, or the loop is left and webhook.ts:131 throws.
NextAttempt(s, attempt) ==
    IF LoopContinues(attempt)
    THEN [s EXCEPT !.ph = "posting", !.attempt = attempt,
                   !.posts = Append(@, PostBody(s.attachment))]
    ELSE [s EXCEPT !.ph = "threw", !.attempt = attempt, !.err = "exhausted"]

\* webhook.ts:86-94: the call, the precondition and the first attempt.
CallSend(attachment) ==
    /\ send.ph = "idle"
    /\ send' = IF ~Truthy(webhookUrl)
               THEN [send EXCEPT !.ph = "threw", !.attachment = attachment, !.err = "config"]
               ELSE NextAttempt([send EXCEPT !.attachment = attachment], 0)
    /\ UNCHANGED <<pipelineVars, webhookUrl, fn, delta, http>>

\* webhook.ts:109-110: the POST resolved.
PostResolved ==
    /\ send.ph = "posting"
    /\ send' = [send EXCEPT !.ph = "returned",
                            !.log = Append(@, [answer |-> AnswerOk, slept |-> NoNum])]
    /\ UNCHANGED <<pipelineVars, webhookUrl, fn, delta, http>>

\* webhook.ts:111-129: the POST rejected; the catch block up to its sleep
\* or its throw.
PostRejected(answer) ==
    /\ send.ph = "posting"
    /\ send' =
         IF answer.status = 429
         THEN [send EXCEPT !.ph = "sleeping",
                           !.log = Append(@, [answer |-> answer,
                                              slept |-> RetryDelay(answer.retry_after)])]
         ELSE IF IsServerError(answer.status)
         THEN [send EXCEPT !.ph = "sleeping",
                           !.log = Append(@, [answer |-> answer,
                                              slept |-> BACKOFF_BASE_MS * (send.attempt + 1)])]
         ELSE [send EXCEPT !.ph = "threw", !.err = "axios",
                           !.log = Append(@, [answer |-> answer, slept |-> NoNum])]
    /\ UNCHANGED <<pipelineVars, webhookUrl, fn, delta, http>>

\* webhook.ts:118/124: the sleep is over, `continue` runs attempt += 1.
SleepOver ==
    /\ send.ph = "sleeping"
    /\ send' = NextAttempt(send, send.attempt + 1)
    /\ UNCHANGED <<pipelineVars, webhookUrl, fn, delta, http>>

SendInit ==
    /\ disk = FileAbsent
    /\ tmp = FileAbsent
    /\ pc = "idle"
    /\ run = 0
    /\ plugins = <<>>
    /\ mem = EMPTY_STATE
    /\ processedKeys = {}
    /\ pendingCount = 0
    /\ index = 0
    /\ uploaded = 0
    /\ cursor = 0
    /\ task = FreshTasks
    /\ hist = InitHist(FileAbsent)
    /\ webhookUrl \in WebhookUrls
    /\ send = IdleSend
    /\ fn = IdleFn
    /\ delta = IdleDelta
    /\ http = IdleHttp

SendNext ==
    \/ \E attachment \in Attachments : CallSend(attachment)
    \/ PostResolved
    \/ \E answer \in FailureAnswers : PostRejected(answer)
    \/ SleepOver

\* Every POST settles (the client has a timeout) and every timer fires.
SendSpec == SendInit /\ [][SendNext]_vars /\ WF_vars(SendNext)

(***************************************************************************)
(* Properties.                                                             *)
(***************************************************************************)
Key(i) == pluginKey(plugins[i])
StartKeys == DOMAIN hist.startEntries
Attempted(i) == task[i].ph \notin {"none", "skipped"}
RunOver == pc \in {"done", "aborted"} /\ ~hist.loadThrew
EarlierDelivered(i) == \E j \in 1..(i - 1) : Key(j) = Key(i) /\ task[j].ph = "ok"
UrlKeys(list) == {pluginKey(list[i]) : i \in {j \in 1..Len(list) : HasUrl(list[j])}}

\* C1: a cache entry is never created speculatively.  Every entry of the
\* in-memory snapshot is either the entry load() produced for that key or
\* belongs to a key whose send returned successfully in this run, and every
\* key of the canonical file was in the file load() read or was sent
\* successfully in this run.
C1_EntryOnlyAfterSuccessfulSend ==
    /\ \A k \in DOMAIN mem.entries :
          \/ k \in hist.okKeys
          \/ k \in StartKeys /\ mem.entries[k] = hist.startEntries[k]
    /\ \A t \in Tasks : \A k \in DOMAIN task[t].payload.entries :
          k \in hist.okKeys \/ k \in StartKeys
    /\ run >= 1 /\ disk.k = "json" =>
          DOMAIN disk.entries \subseteq hist.okKeys \cup DOMAIN hist.loadedFrom.entries

C1_Witness ==
    /\ pc = "done"
    /\ hist.failedSend # {}
    /\ \E k \in DOMAIN mem.entries : k \notin StartKeys

\* C2: send failures never abort the run.  When the run is over, every
\* record with a URL whose key was not delivered before was attempted, the
\* keys added to the snapshot are exactly the keys whose send succeeded, a
\* run aborts only when the final save() itself failed, and if no save()
\* failed the canonical file holds exactly the keys of the snapshot.
C2_SendFailureDoesNotAbort ==
    RunOver =>
        /\ pc = "aborted" => hist.saveFailed
        /\ \A i \in 1..NPlugins :
              HasUrl(plugins[i]) /\ Key(i) \notin StartKeys /\ ~EarlierDelivered(i)
                  => task[i].ph \in {"ok", "failed"}
        /\ DOMAIN mem.entries = StartKeys \cup hist.okKeys
        /\ StartKeys \cap hist.okKeys = {}
        /\ ~hist.saveFailed =>
              disk.k = "json" /\ DOMAIN disk.entries = DOMAIN mem.entries

C2_Witness ==
    /\ pc = "done"
    /\ \E i, j \in 1..NPlugins :
          /\ i < j
          /\ i \in hist.failedSend
          /\ task[j].ph = "ok"
          /\ Key(i) \notin DOMAIN mem.entries
          /\ Key(j) \in DOMAIN mem.entries

\* C3: across runs and crashes, a key is in the persisted cache only if it
\* was sent successfully, and a key is sent successfully twice only when a
\* crash struck between its send and the completion of the following save
\* (or a load had to discard an unusable cache file).
C3_DuplicateOnlyAfterCrashInGap ==
    /\ disk.k = "json" /\ disk.version = STATE_VERSION =>
          \A k \in DOMAIN disk.entries : hist.sentCount[k] >= 1
    /\ \A k \in AllKeys :
          hist.sentCount[k] >= 2 => k \in hist.gapKeys \/ ~hist.loadIntact

\* C4 as stated: when the run is over, every record with a URL whose key
\* was absent from the cache at run start has been attempted, and no record
\* whose key was present has been downloaded or sent.
C4_EveryUncachedRecordAttempted ==
    /\ \A i \in 1..NPlugins :
          Attempted(i) => HasUrl(plugins[i]) /\ Key(i) \notin StartKeys
    /\ RunOver =>
          \A i \in 1..NPlugins :
              HasUrl(plugins[i]) /\ Key(i) \notin StartKeys => Attempted(i)

\* C4 amended: a record is attempted exactly when it has a URL, its key was
\* absent from the cache at run start and no earlier record of the list
\* with the same key was delivered and saved in this run; no other record
\* is ever downloaded or sent.
C4_UncachedAttemptedUnlessDeliveredEarlier ==
    /\ \A i \in 1..NPlugins :
          Attempted(i) =>
              HasUrl(plugins[i]) /\ Key(i) \notin StartKeys /\ ~EarlierDelivered(i)
    /\ RunOver =>
          \A i \in 1..NPlugins :
              HasUrl(plugins[i]) /\ Key(i) \notin StartKeys /\ ~EarlierDelivered(i)
                  => Attempted(i)

C4_Witness ==
    /\ pc = "done"
    /\ \E i, j \in 1..NPlugins :
          /\ Key(i) \in StartKeys /\ task[i].ph = "skipped"
          /\ Key(j) \notin StartKeys /\ task[j].ph = "ok"

\* C5: an interrupted run followed by a complete run over the same list, in
\* which every send and save succeeded, ends with the keys cached before
\* the interrupted run plus the keys of all records with a URL.
C5_ResumeConverges ==
    (/\ pc = "done"
     /\ hist.prev.crashed
     /\ hist.prev.sameList
     /\ hist.failedSend = {}
     /\ ~hist.saveFailed)
        => /\ disk.k = "json"
           /\ DOMAIN disk.entries = hist.prev.keys0 \cup UrlKeys(plugins)

\* C6: once a record is delivered and its entry persisted, a rerun over the
\* same list with the persisted cache delivers nothing, and computeDelta
\* classifies the record unchanged whatever the (repeated) HEAD result is.
C6_RerunYieldsNoDelta ==
    \A i \in 1..NPlugins :
        (pc \in {"loop", "done"} /\ task[i].ph = "ok" /\ disk.k = "json") =>
            LET cache == LoadState(disk).state
            IN  /\ i \notin Pending(plugins, EntryKeys(cache))
                /\ \A head \in HeadMetas :
                      DeltaOf(plugins[i], head, cache.entries) = "unchanged"

\* C7: after a crash at any step of save() the canonical file is the
\* complete snapshot saved before or the complete new snapshot, and the
\* temporary file is complete whenever the canonical path is about to be
\* touched.
C7_CanonicalFileOldOrNew ==
    /\ \A t \in Tasks :
          task[t].ph \in {"save_move", "save_rename"} => tmp = hist.newSnap
    /\ pc = "crashed" /\ hist.oldSnap.k = "json" => disk \in {hist.oldSnap, hist.newSnap}

\* C8: after set() calls and a completed save(), load() in a fresh instance
\* yields the same key-to-entry mapping as the saving instance holds.
C8_SaveLoadRoundTrip ==
    hist.synced =>
        LET fresh == LoadState(disk)
        IN  /\ ~fresh.threw
            /\ SameEntries(fresh.state.entries, mem.entries)
            /\ EntryKeys(fresh.state) = EntryKeys(mem)

C8_Witness ==
    /\ hist.synced
    /\ \E k \in DOMAIN mem.entries :
          /\ k \in hist.okKeys
          /\ mem.entries[k].contentHash = None
          /\ mem.entries[k] # LoadState(disk).state.entries[k]
    /\ \E k \in DOMAIN mem.entries : k \in hist.okKeys /\ mem.entries[k].contentHash # None

\* C9: load() never throws; for a missing file, a file of another schema
\* version or an unparsable file it yields the empty snapshot, so the run
\* treats every record with a URL as pending; loading again changes nothing.
C9_LoadFallsBackToEmpty ==
    run >= 1 =>
        /\ ~hist.loadThrew
        /\ (hist.loadedFrom.k # "json" \/ hist.loadedFrom.version # STATE_VERSION) =>
              /\ hist.startEntries = NoEntries
              /\ pc # "crashed" =>
                    pendingCount = Cardinality({i \in 1..NPlugins : HasUrl(plugins[i])})
        /\ LoadState(hist.loadedFrom).state.entries = hist.startEntries

C9_Witness ==
    /\ pc = "done"
    /\ hist.loadedFrom = FileOldVersion
    /\ hist.okKeys # {}

\* C10: delivery is sequential and ordered.  At most one record is between
\* the start of its download and the completion of its save, a record is
\* taken up only when every earlier record is settled, and sends are
\* called in list order.
InFlight(i) == task[i].ph \in {"download", "send", "save_write", "save_move", "save_rename"}

C10_SequentialOrderedDelivery ==
    /\ Cardinality({i \in 1..MaxLen : InFlight(i)}) <= 1
    /\ \A i, j \in 1..NPlugins :
          i < j /\ task[j].ph # "none" => task[i].ph \in {"skipped", "ok", "failed"}
    /\ \A a, b \in DOMAIN hist.sendLog : a < b => hist.sendLog[a] < hist.sendLog[b]

C10_Witness ==
    /\ NPlugins >= 2
    /\ task[1].ph = "ok"
    /\ task[2].ph = "send"
    /\ hist.sendLog = <<1, 2>>

\* C11: the snapshot is persisted after every unit of work.  Whenever the
\* loop is between two records and no save() has failed in this run, the
\* keys load() would read from the canonical file are the keys in memory
\* and are the keys cached at run start plus the keys sent successfully so
\* far; once a record was delivered the canonical file is the document of
\* the in-memory snapshot.
BetweenRecords == pc = "loop" /\ (cursor = 0 \/ Settled(cursor))

C11_PersistedAfterEveryUnit ==
    (BetweenRecords /\ ~hist.saveFailed) =>
        LET persisted == EntryKeys(LoadState(disk).state)
        IN  /\ persisted = EntryKeys(mem)
            /\ persisted = StartKeys \cup hist.okKeys
            /\ hist.okKeys # {} => disk = ToJson(mem)

C11_Witness ==
    /\ BetweenRecords
    /\ ~hist.saveFailed
    /\ NPlugins = 2 /\ cursor = 1
    /\ task[1].ph = "ok"
    /\ StartKeys # {}
    /\ hist.failedSend = {}
    /\ Cardinality(DOMAIN disk.entries) = 2

(***************************************************************************)
(* Properties of sendPluginWebhook, checked under SendSpec.                *)
(***************************************************************************)
SendSettled == send.ph \in {"returned", "threw"}
Is5xx(status) == status \in 500..599
RetryableAnswer(answer) == answer.status = 429 \/ Is5xx(answer.status)
AllRetryable == \A j \in DOMAIN send.log : RetryableAnswer(send.log[j].answer)

\* C12: a call of sendPluginWebhook makes at most 5 POSTs and always ends,
\* whatever the sink answers; when 5 POSTs were all answered with a 429 or
\* a 5xx the call ends by throwing its own terminal error.
C12_AtMostFiveAttemptsThenFailure ==
    /\ [](Len(send.posts) <= 5 /\ Len(send.log) <= Len(send.posts))
    /\ [](SendSettled /\ Len(send.log) = 5 /\ AllRetryable
             => send.ph = "threw" /\ send.err = "exhausted")
    /\ <>SendSettled
    /\ (Len(send.log) = 5 /\ AllRetryable) ~> (send.ph = "threw")

C12_Witness ==
    /\ send.ph = "threw"
    /\ send.err = "exhausted"
    /\ Len(send.posts) = 5
    /\ \E j, k \in DOMAIN send.log :
          send.log[j].answer.status = 429 /\ send.log[k].answer.status = 503

\* C13: after a 429 answer the call sleeps the retry_after of the answer,
\* given in seconds and rounded up to a millisecond (1 second when the
\* answer has none), and then, while attempts remain, posts the same body
\* again; a 429 followed by a success is exactly two POSTs and a return.
C13_RateLimitWaitsThenRetries ==
    /\ \A j \in DOMAIN send.log :
          send.log[j].answer.status = 429 =>
              LET r == send.log[j].answer.retry_after
                  ms == send.log[j].slept
              IN  /\ r = NoNum => ms = 1000
                  /\ r # NoNum => ms * 10 >= r /\ (ms - 1) * 10 < r
                  /\ (j < 5 /\ (j < Len(send.log) \/ send.ph # "sleeping"))
                        => Len(send.posts) >= j + 1 /\ send.posts[j + 1] = send.posts[j]
    /\ (Len(send.log) = 2 /\ send.log[1].answer.status = 429 /\ send.log[2].answer = AnswerOk)
          => send.ph = "returned" /\ Len(send.posts) = 2 /\ send.err = None

C13_Witness ==
    /\ send.ph = "returned"
    /\ Len(send.posts) = 2
    /\ send.posts[1].kind = "multipart"
    /\ send.log[1].answer = Answer(429, 3505)
    /\ send.log[1].slept = 351

\* C14: the sleep after the k-th 5xx answer of a call is base x k, however
\* many 429 answers came in between.
C14_BackoffCountsOnly5xx ==
    \A j \in DOMAIN send.log :
        Is5xx(send.log[j].answer.status) =>
            send.log[j].slept =
                500 * Cardinality({i \in 1..j : Is5xx(send.log[i].answer.status)})

\* C15: a failed POST that is neither a 429 nor a 5xx ends the call at
\* once: it is the last POST, nothing is slept after it and the call throws
\* the error of that POST.
C15_OtherFailureIsTerminal ==
    \A j \in DOMAIN send.log :
        (send.log[j].answer # AnswerOk /\ ~RetryableAnswer(send.log[j].answer)) =>
            /\ j = Len(send.log)
            /\ Len(send.posts) = j
            /\ send.log[j].slept = NoNum
            /\ send.ph = "threw"
            /\ send.err = "axios"

C15_Witness ==
    /\ send.ph = "threw"
    /\ Len(send.log) = 2
    /\ send.log[1].answer.status = 500
    /\ send.log[2].answer.status = 404

(***************************************************************************)
(* Hard failures of a notify run, checked under Spec.                      *)
(***************************************************************************)
\* C16: a missing sink endpoint halts the notify run.  With no webhook URL
\* configured the first send throws before any POST, no further record is
\* taken up, the run does not complete and the exit status is non-zero.
C16_MissingEndpointHaltsRun ==
    ~Truthy(webhookUrl) =>
        /\ Len(hist.sendLog) <= 1
        /\ pc = "done" => hist.sendLog = <<>>
        /\ (hist.failedSend # {} /\ pc # "crashed") => ExitCode = 1

\* C17: a malformed upstream catalog halts the notify run.  When one of the
\* two catalogs of a run is not an object with an items array, or has an
\* item without an object-valued file, the run is rejected with exit status
\* 1, nothing is downloaded, sent or saved and the canonical file is the
\* file the run loaded.
C17_MalformedCatalogHaltsRun ==
    (run >= 1 /\ hist.malformed) =>
        /\ pc = "rejected"
        /\ ExitCode = 1
        /\ hist.sendLog = <<>>
        /\ hist.okKeys = {}
        /\ \A t \in Tasks : task[t].ph = "none"
        /\ disk = hist.loadedFrom

C17_Witness ==
    /\ hist.malformed
    /\ pc = "rejected"
    /\ run = 2
    /\ Truthy(webhookUrl)
    /\ disk.k = "json"
    /\ DOMAIN disk.entries = {"https://h/alpha.cs"}

(***************************************************************************)
(* Key derivation and the merge engine as functions: one evaluation of     *)
(* pluginKey or of mergeIndices on inputs drawn from bounded sets.         *)
(***************************************************************************)
MaxItems == 2

\* Records for pluginKey: every combination of a missing, empty or given
\* URL, repository (undefined, or with its names missing, empty or given),
\* path, and two extension maps.
Extras == {NoExtra, [k \in {"stars"} |-> "5"]}
KeyRecords ==
    {[Plugin("Alpha", url, path, None, NoNum, None) EXCEPT !.repository = repo, !.extra = extra] :
        url \in {None, "", "https://h/alpha.cs"}, path \in {None, "", "alpha.cs"},
        repo \in {NoRepo} \cup {Repo(fullName, name) :
                                    fullName \in {None, "", "o/alpha"}, name \in {None, "alpha"}},
        extra \in Extras}

\* Records for mergeIndices: two records with the same URL and different
\* fields, and records without a URL whose names contain the separator.
Described(name, author, url, path, repo) ==
    [Plugin(name, url, path, None, NoNum, repo) EXCEPT !.plugin_author = author]
MergeRecords ==
    {Described("Legacy", None, "https://h/plugin.cs", "plugin.cs", "oxide/repo"),
     Described("Enhanced", "Crawler", "https://h/plugin.cs", "src/plugin.cs", "oxide/repo"),
     Described("Left", None, None, "b::c", "a"),
     Described("Right", None, None, "c", "a::b"),
     Described("Both", None, None, "b::c", "a::b")}

ItemLists == UNION {[1..n -> MergeRecords] : n \in 0..MaxItems}

\* A PluginIndex with the given items.
IndexOf(items) == [threw |-> FALSE, count |-> Len(items), items |-> items]

FnInit ==
    /\ disk = FileAbsent
    /\ tmp = FileAbsent
    /\ pc = "idle"
    /\ run = 0
    /\ plugins = <<>>
    /\ mem = EMPTY_STATE
    /\ processedKeys = {}
    /\ pendingCount = 0
    /\ index = 0
    /\ uploaded = 0
    /\ cursor = 0
    /\ task = FreshTasks
    /\ hist = InitHist(FileAbsent)
    /\ webhookUrl = ""
    /\ send = IdleSend
    /\ fn = IdleFn
    /\ delta = IdleDelta
    /\ http = IdleHttp

\* pluginKey(plugin) is evaluated.
EvalPluginKey(plugin) ==
    /\ fn.op = "none"
    /\ fn' = [op |-> "pluginKey", arg |-> plugin, out |-> pluginKey(plugin)]
    /\ UNCHANGED <<pipelineVars, webhookUrl, send, delta, http>>

\* mergeIndices(oxide, crawled) is evaluated; `seeded` is its Map after the
\* first loop and `merged` its Map after the second.
EvalMergeIndices(oxide, crawled) ==
    /\ fn.op = "none"
    /\ fn' = [op |-> "mergeIndices", oxide |-> oxide, crawled |-> crawled,
              seeded |-> SeedMap(EmptyMap, oxide.items),
              merged |-> MergedMap(oxide, crawled),
              out |-> mergeIndices(oxide, crawled)]
    /\ UNCHANGED <<pipelineVars, webhookUrl, send, delta, http>>

\* Records for mergePlugin: the scalar fields all missing, all empty, all
\* given (two sets of values) or mixed; the categories missing, empty or
\* given; a file reference with the URL (two of them, differing in the
\* other fields) or without it (two of them, the URL missing or empty).
FieldRecords ==
    {[plugin_name |-> s[1],
      plugin_author |-> s[2],
      plugin_version |-> s[3],
      plugin_description |-> s[4],
      plugin_resource_id |-> s[5],
      categories |-> c,
      file |-> f,
      repository |-> Repo("oxide/repo", None),
      extra |-> NoExtra] :
        s \in {<<None, None, None, None, None>>,
               <<"", "", "", "", "">>,
               <<"Legacy", "Oxide", "1.0.0", "Base description", "101">>,
               <<"Enhanced", "Crawler", "2.0.0", "Crawled description", "202">>,
               <<"Mixed", "", None, "Mixed description", "">>},
        c \in {NoCats, Cats(<<>>), Cats(<<"Fun">>), Cats(<<"Admin", "Fun">>)},
        f \in {[raw_url |-> "https://h/plugin.cs", path |-> "plugin.cs", sha |-> "sha-1", size |-> 10],
               [raw_url |-> "https://h/plugin.cs", path |-> "src/plugin.cs", sha |-> "sha-2", size |-> 20],
               [raw_url |-> None, path |-> "plugin.cs", sha |-> "sha-3", size |-> 30],
               [raw_url |-> "", path |-> "plugin.cs", sha |-> None, size |-> NoNum]}}

\* mergePlugin(existing, incoming) is evaluated; mergeIndices calls it only
\* for an enriched record whose key is already in the map.
EvalMergePlugin(existing, incoming) ==
    /\ fn.op = "none"
    /\ pluginKey(existing) = pluginKey(incoming)
    /\ fn' = [op |-> "mergePlugin", existing |-> existing, incoming |-> incoming,
              out |-> mergePlugin(existing, incoming)]
    /\ UNCHANGED <<pipelineVars, webhookUrl, send, delta, http>>

FnNext ==
    \/ \E plugin \in KeyRecords : EvalPluginKey(plugin)
    \/ \E a, b \in ItemLists : EvalMergeIndices(IndexOf(a), IndexOf(b))
    \/ \E existing, incoming \in FieldRecords : EvalMergePlugin(existing, incoming)

FnSpec == FnInit /\ [][FnNext]_vars

\* Catalogs for the nested merge: two records with the same URL and one
\* record with a key of its own.
AssocLists ==
    UNION {[1..n -> {r \in MergeRecords : r.plugin_name \in {"Legacy", "Enhanced", "Left"}}] :
              n \in 0..MaxItems}

\* mergeIndices is evaluated on three catalogs, nested to the left and
\* nested to the right.
EvalNestedMerge(a, b, c) ==
    /\ fn.op = "none"
    /\ fn' = [op |-> "nestedMerge", a |-> a, b |-> b, c |-> c,
              left |-> mergeIndices(mergeIndices(a, b), c),
              right |-> mergeIndices(a, mergeIndices(b, c))]
    /\ UNCHANGED <<pipelineVars, webhookUrl, send, delta, http>>

NestedNext ==
    \E a, b, c \in AssocLists : EvalNestedMerge(IndexOf(a), IndexOf(b), IndexOf(c))

NestedSpec == FnInit /\ [][NestedNext]_vars

\* A property that is not undefined.
Present(v) == v # None

\* C18 as stated: the key is the URL when there is one; otherwise it is the
\* repository full name and the file path joined by "::", with "repository"
\* in place of an absent full name and "file" in place of an absent path;
\* it is not empty and does not depend on the extension map.
C18_KeyFromUrlOrFullNameAndPath ==
    fn.op = "pluginKey" =>
        LET p == fn.arg
        IN  /\ Truthy(p.file.raw_url) => fn.out = p.file.raw_url
            /\ ~Truthy(p.file.raw_url) =>
                  fn.out = (IF Present(p.repository.full_name) THEN p.repository.full_name
                            ELSE "repository")
                           \o "::" \o (IF Present(p.file.path) THEN p.file.path ELSE "file")
            /\ fn.out # ""
            /\ \A extra \in Extras : pluginKey([p EXCEPT !.extra = extra]) = fn.out

\* C18 amended: as above, but an absent full name is replaced by the
\* repository's short name when that is present, and by "repository" only
\* when both names are absent.
C18_KeyFromUrlOrRepositoryAndPath ==
    fn.op = "pluginKey" =>
        LET p == fn.arg
        IN  /\ Truthy(p.file.raw_url) => fn.out = p.file.raw_url
            /\ ~Truthy(p.file.raw_url) =>
                  fn.out = (IF Present(p.repository.full_name) THEN p.repository.full_name
                            ELSE IF Present(p.repository.name) THEN p.repository.name
                            ELSE "repository")
                           \o "::" \o (IF Present(p.file.path) THEN p.file.path ELSE "file")
            /\ fn.out # ""
            /\ \A extra \in Extras : pluginKey([p EXCEPT !.extra = extra]) = fn.out

C18_Witness ==
    /\ fn.op = "pluginKey"
    /\ fn.arg.file.raw_url = ""
    /\ fn.arg.repository.full_name = None
    /\ fn.arg.repository.name = "alpha"
    /\ fn.arg.extra # NoExtra
    /\ fn.out = "alpha::alpha.cs"

\* The keys of the records of a list.
KeysOf(items) == {pluginKey(items[i]) : i \in DOMAIN items}

\* C19: the list mergeIndices returns has pairwise distinct keys; every
\* record of it has the key it was stored under, there is exactly one
\* record per key of the two inputs, and count is the number of items.
C19_MergedKeysDistinct ==
    fn.op = "mergeIndices" =>
        LET items == fn.out.items
        IN  /\ \A i, j \in DOMAIN items : i # j => pluginKey(items[i]) # pluginKey(items[j])
            /\ \A i \in DOMAIN items : pluginKey(items[i]) = fn.merged.keys[i]
            /\ KeysOf(items) = KeysOf(fn.oxide.items) \cup KeysOf(fn.crawled.items)
            /\ Len(items) = Cardinality(KeysOf(fn.oxide.items) \cup KeysOf(fn.crawled.items))
            /\ fn.out.count = Len(items)

\* C20: seeding keeps, for every key of the base catalog, the first base
\* record with that key.
C20_SeedingKeepsFirst ==
    fn.op = "mergeIndices" =>
        \A i \in DOMAIN fn.oxide.items :
            (\A j \in 1..(i - 1) : pluginKey(fn.oxide.items[j]) # pluginKey(fn.oxide.items[i]))
                => fn.seeded.val[pluginKey(fn.oxide.items[i])] = fn.oxide.items[i]

(***************************************************************************)
(* Field precedence of the merge (mergePlugin).                            *)
(***************************************************************************)
\* The scalar fields of a record.
ScalarFields ==
    {"plugin_name", "plugin_author", "plugin_version", "plugin_description", "plugin_resource_id"}

\* A value the merge treats as not given: undefined or the empty string.
AbsentOrEmpty(v) == v = None \/ v = ""

\* The base and the enriched record of a merge of two one-record catalogs
\* that share a key.
OnePair ==
    /\ fn.op = "mergeIndices"
    /\ Len(fn.oxide.items) = 1
    /\ Len(fn.crawled.items) = 1
    /\ pluginKey(fn.oxide.items[1]) = pluginKey(fn.crawled.items[1])

\* C21: for a base and an enriched record sharing a key, each scalar field
\* of the merged record (name, author, version, description, resource id)
\* is the enriched value unless that value is absent or empty, and then it
\* is the base value; so it is for the one record mergeIndices returns for
\* two one-record catalogs sharing a key.
C21_ScalarFieldsPreferEnriched ==
    /\ fn.op = "mergePlugin" =>
           \A f \in ScalarFields :
               fn.out[f] = IF AbsentOrEmpty(fn.incoming[f]) THEN fn.existing[f]
                           ELSE fn.incoming[f]
    /\ OnePair =>
           /\ Len(fn.out.items) = 1
           /\ \A f \in ScalarFields :
                  fn.out.items[1][f] =
                      IF AbsentOrEmpty(fn.crawled.items[1][f]) THEN fn.oxide.items[1][f]
                      ELSE fn.crawled.items[1][f]

\* A merge where the enriched record gives a name that differs from the base
\* name, an empty author and no version, and the base gives all three.
C21_Witness ==
    /\ fn.op = "mergePlugin"
    /\ fn.existing.plugin_name = "Legacy"
    /\ fn.incoming.plugin_name = "Mixed"
    /\ fn.incoming.plugin_author = ""
    /\ fn.incoming.plugin_version = None
    /\ fn.out.plugin_name = "Mixed"
    /\ fn.out.plugin_author = "Oxide"
    /\ fn.out.plugin_version = "1.0.0"

\* C22: for records sharing a key, the merged categories are the enriched
\* record's whole list when it has at least one category (the base list is
\* replaced, not united with it), and the base record's list otherwise.
C22_CategoriesReplacedWhenNonEmpty ==
    fn.op = "mergePlugin" =>
        fn.out.categories =
            IF fn.incoming.categories.defined /\ Len(fn.incoming.categories.list) >= 1
            THEN fn.incoming.categories
            ELSE fn.existing.categories

\* The enriched list <<"Fun">> replaces the base list <<"Admin", "Fun">>,
\* whose first category is lost.
C22_Witness ==
    /\ fn.op = "mergePlugin"
    /\ fn.existing.categories = Cats(<<"Admin", "Fun">>)
    /\ fn.incoming.categories = Cats(<<"Fun">>)
    /\ fn.out.categories = Cats(<<"Fun">>)

\* C23: for records sharing a key, the merged file reference is the
\* enriched record's whole reference (path, URL, hash and size) when the
\* enriched record declares a download URL, and the base record's whole
\* reference otherwise: it is one of the two references, never a mixture.
C23_FileReferenceTakenWhole ==
    fn.op = "mergePlugin" =>
        /\ fn.out.file = IF ~AbsentOrEmpty(fn.incoming.file.raw_url) THEN fn.incoming.file
                         ELSE fn.existing.file
        /\ fn.out.file \in {fn.existing.file, fn.incoming.file}

\* An enriched record without a URL but with its own path, hash and size is
\* merged into a base record without a URL: the base reference is kept.
C23_Witness ==
    /\ fn.op = "mergePlugin"
    /\ fn.incoming.file.raw_url = None
    /\ fn.incoming.file.sha = "sha-3"
    /\ fn.existing.file.raw_url = ""
    /\ fn.existing.file.sha = None
    /\ fn.out.file = fn.existing.file

(***************************************************************************)
(* The merge of three catalogs.                                            *)
(***************************************************************************)
\* C24: for all catalogs A, B and C, mergeIndices(mergeIndices(A, B), C)
\* and mergeIndices(A, mergeIndices(B, C)) have the same item list: the
\* same keys in the same places with the same field values.
C24_MergeAssociative ==
    fn.op = "nestedMerge" => fn.left.items = fn.right.items

(***************************************************************************)
(* Classification by computeDelta.                                         *)
(***************************************************************************)
Done(i) == delta.st[i] = "done"
Cached(i) == pluginKey(delta.plugins[i]) \in DOMAIN delta.cache
Previous(i) == delta.cache[pluginKey(delta.plugins[i])]
Emitted(i) == delta.results[i] # Null

\* The returned list holds an item of the record at position i.
Returned(i) == \E k \in DOMAIN delta.out : delta.out[k].plugin = delta.plugins[i]

\* C25: every record whose key has no cache entry is classified new and a
\* DeltaItem is emitted for it, whatever the HEAD probe returned, also when
\* the probe failed or the record has no URL to probe.
C25_UncachedIsNew ==
    \A i \in Positions(delta) :
        ~Cached(i) =>
            /\ Done(i) => /\ Emitted(i)
                          /\ delta.results[i].reason = "new"
                          /\ delta.results[i].plugin = delta.plugins[i]
            /\ delta.ph = "returned" =>
                   \E k \in DOMAIN delta.out :
                       /\ delta.out[k].plugin = delta.plugins[i]
                       /\ delta.out[k].reason = "new"

\* computeDelta returned for an empty cache: one record's probe failed, the
\* other record has no URL, and both are returned as new.
C25_Witness ==
    /\ delta.ph = "returned"
    /\ delta.cache = NoEntries
    /\ \E i, j \in Positions(delta) :
           /\ delta.plugins[i] = DNew /\ delta.failed[i]
           /\ delta.plugins[j] = DNoUrl
           /\ Returned(i) /\ Returned(j)
           /\ delta.results[i].reason = "new" /\ delta.results[j].reason = "new"

\* The metadata of the record at position i is reliable: the ETag or the
\* Last-Modified of the probe or the record's source file hash is given.
Reliable(i) ==
    \/ ~AbsentOrEmpty(delta.meta[i].etag)
    \/ ~AbsentOrEmpty(delta.meta[i].lastModified)
    \/ ~AbsentOrEmpty(delta.plugins[i].file.sha)

EtagMatches(i) ==
    /\ ~AbsentOrEmpty(delta.meta[i].etag)
    /\ ~AbsentOrEmpty(Field(Previous(i), "etag"))
    /\ delta.meta[i].etag = Field(Previous(i), "etag")
LastModifiedMatches(i) ==
    /\ ~AbsentOrEmpty(delta.meta[i].lastModified)
    /\ ~AbsentOrEmpty(Field(Previous(i), "lastModified"))
    /\ delta.meta[i].lastModified = Field(Previous(i), "lastModified")
FileHashMatches(i) ==
    /\ ~AbsentOrEmpty(delta.plugins[i].file.sha)
    /\ ~AbsentOrEmpty(Field(Previous(i), "fileSha"))
    /\ delta.plugins[i].file.sha = Field(Previous(i), "fileSha")
ContentLengthMatches(i) ==
    /\ delta.meta[i].contentLength # NoNum
    /\ Field(Previous(i), "fileSize") # NoNum
    /\ delta.meta[i].contentLength = Field(Previous(i), "fileSize")
DeclaredSizeMatches(i) ==
    /\ delta.plugins[i].file.size # NoNum
    /\ Field(Previous(i), "fileSize") # NoNum
    /\ delta.plugins[i].file.size = Field(Previous(i), "fileSize")

\* C26: a record with a cache entry and reliable metadata is dropped as
\* unchanged exactly when its ETag equals the cached ETag, or its
\* Last-Modified the cached one, or its source file hash the cached file
\* hash (both non-empty), or its content length or its declared size the
\* cached file size (both defined); otherwise it is emitted as updated.  A
\* matching ETag always yields no DeltaItem.
C26_UnchangedExactlyOnMatch ==
    \A i \in Positions(delta) :
        (Done(i) /\ Cached(i)) =>
            /\ Reliable(i) =>
                   /\ ~Emitted(i) <=> \/ EtagMatches(i)
                                      \/ LastModifiedMatches(i)
                                      \/ FileHashMatches(i)
                                      \/ ContentLengthMatches(i)
                                      \/ DeclaredSizeMatches(i)
                   /\ Emitted(i) => delta.results[i].reason = "updated"
            /\ EtagMatches(i) => ~Emitted(i)

\* One record has a source hash and a new ETag, and nothing of it matches
\* the cache: it is updated.  Another has a new ETag and a new content
\* length, and only its declared size matches: it is dropped.
C26_Witness ==
    /\ delta.ph = "returned"
    /\ \E i, j \in Positions(delta) :
           /\ delta.plugins[i] = DHashed /\ Cached(i)
           /\ delta.meta[i].etag = "etag-2"
           /\ Returned(i) /\ delta.results[i].reason = "updated"
           /\ delta.plugins[j] = DBare /\ Cached(j)
           /\ delta.meta[j].etag = "etag-2" /\ delta.meta[j].contentLength = 5
           /\ ~Emitted(j) /\ ~Returned(j)

\* The record at position i has no ETag, no Last-Modified and no source
\* file hash.
NoMarkers(i) ==
    /\ AbsentOrEmpty(delta.meta[i].etag)
    /\ AbsentOrEmpty(delta.meta[i].lastModified)
    /\ AbsentOrEmpty(delta.plugins[i].file.sha)

FlaggedUpdated(i) ==
    /\ Emitted(i)
    /\ delta.results[i].reason = "updated"
    /\ delta.results[i].metadata.requiresContentHashCheck

\* C27 as stated: a record with no ETag, no Last-Modified and no source
\* file hash is always classified updated with requiresContentHashCheck
\* true.
C27_NoMarkersIsUpdated ==
    \A i \in Positions(delta) : (Done(i) /\ NoMarkers(i)) => FlaggedUpdated(i)

\* C27: a record that has a cache entry and no ETag, no Last-Modified and
\* no source file hash is always classified updated with
\* requiresContentHashCheck true, also when its size equals the cached
\* size; without a cache entry it is new and the flag is false.
C27_CachedNoMarkersIsUpdated ==
    \A i \in Positions(delta) :
        (Done(i) /\ NoMarkers(i)) =>
            IF Cached(i) THEN FlaggedUpdated(i)
            ELSE /\ Emitted(i)
                 /\ delta.results[i].reason = "new"
                 /\ ~delta.results[i].metadata.requiresContentHashCheck

\* A cached record without markers whose probe gave only a content length
\* equal to the cached size, as is its declared size: returned as updated
\* with the flag.
C27_Witness ==
    /\ delta.ph = "returned"
    /\ \E i \in Positions(delta) :
           /\ delta.plugins[i] = DBare /\ Cached(i)
           /\ delta.meta[i] = [etag |-> None, lastModified |-> None, contentLength |-> 10]
           /\ ContentLengthMatches(i) /\ DeclaredSizeMatches(i)
           /\ Returned(i) /\ FlaggedUpdated(i)

(***************************************************************************)
(* Order and concurrency of computeDelta.                                  *)
(***************************************************************************)
\* The positions of the records that are not classified unchanged.
Kept == {i \in Positions(delta) :
            DeltaOf(delta.plugins[i], delta.meta[i], delta.cache) # "unchanged"}

\* C28: whatever the order in which the probes complete, the returned list
\* is the subsequence of the input list, in the same relative order, of
\* exactly the records that are not classified unchanged.
C28_ResultInInputOrder ==
    delta.ph = "returned" =>
        /\ Len(delta.out) = Cardinality(Kept)
        /\ \A i \in Kept :
               LET rank == Cardinality({j \in Kept : j <= i})
               IN  /\ delta.out[rank].plugin = delta.plugins[i]
                   /\ delta.out[rank] = delta.results[i]

\* A later record's task settled before an earlier record's, both are
\* returned, and a third record was dropped.
C28_Witness ==
    /\ delta.ph = "returned"
    /\ \E a, b \in DOMAIN delta.completed :
           /\ a < b
           /\ delta.completed[a] > delta.completed[b]
           /\ {delta.completed[a], delta.completed[b]} \subseteq Kept
    /\ Len(delta.out) = 2
    /\ Len(delta.plugins) = 3

\* N = max(1, CONCURRENCY) and the number of HEAD probes in flight.
ProbeLimit == IF delta.concurrency >= 1 THEN delta.concurrency ELSE 1
ProbesInFlight == Cardinality(InFlightProbes(delta))

\* A step that puts one more probe in flight.
ProbeStarts == Cardinality(InFlightProbes(delta')) > Cardinality(InFlightProbes(delta))

\* C29: the number of HEAD probes in flight never exceeds
\* N = max(1, CONCURRENCY), and a probe starts only while fewer than N are
\* in flight.
C29_ProbesBounded ==
    /\ [](ProbesInFlight <= ProbeLimit)
    /\ [][ProbeStarts => ProbesInFlight < ProbeLimit]_vars

\* With CONCURRENCY = 2 two probes are in flight and a third record waits
\* in the queue.
C29_Witness ==
    /\ delta.concurrency = 2
    /\ Cardinality(InFlightProbes(delta)) = 2
    /\ \E i \in Positions(delta) : delta.st[i] = "queued" /\ HasUrl(delta.plugins[i])

\* C30: a failing HEAD probe never aborts computeDelta: headMeta turns the
\* failure into an empty metadata bundle and the record is still
\* classified; a cached record whose probe failed and that has no source
\* file hash is emitted as updated with requiresContentHashCheck true.
C30_FailedProbeTolerated ==
    /\ delta.ph \in {"idle", "running", "returned"}
    /\ \A i \in Positions(delta) :
           delta.failed[i] =>
               /\ Done(i)
               /\ delta.meta[i] = EmptyMeta
               /\ Emitted(i) => delta.results[i].reason \in {"new", "updated"}
               /\ ~Cached(i) => Emitted(i) /\ delta.results[i].reason = "new"
               /\ (Cached(i) /\ AbsentOrEmpty(delta.plugins[i].file.sha)) => FlaggedUpdated(i)
    /\ delta.ph = "returned" =>
           \A i \in Positions(delta) : (delta.failed[i] /\ Emitted(i)) => Returned(i)

\* The probes of two cached records failed and computeDelta returned: the
\* record without a source hash is in the list as updated with the flag,
\* the record with one as updated without it.
C30_Witness ==
    /\ delta.ph = "returned"
    /\ \E i, j \in Positions(delta) :
           /\ delta.plugins[i] = DBare /\ Cached(i) /\ delta.failed[i]
           /\ Returned(i) /\ FlaggedUpdated(i)
           /\ delta.plugins[j] = DHashed /\ delta.failed[j] /\ Returned(j)
           /\ ~delta.results[j].metadata.requiresContentHashCheck


\* ---------------------------------------------------------------------------
\* Attachment policy of the delivery loop (cli.ts:88-141)

Calls(i) == Cardinality({n \in DOMAIN hist.sendLog : hist.sendLog[n] = i})
SendIssued(i) == task[i].ph = "send" \/ InSave(i)
Oversized(i) == task[i].buf # NoNum /\ task[i].buf > MAX_ATTACHMENT_BYTES

\* C31: the attachment handed to sendPluginWebhook is never larger than
\* MAX_ATTACHMENT_BYTES; when the downloaded body exceeds the limit the
\* notification is sent once, without attachment, and once the send has
\* succeeded the delivery is counted as a success and its entry is set
\* (with the size of the index, not of the body).
C31_OversizedBodyNotAttached ==
    \A i \in 1..NPlugins :
        /\ task[i].att <= MAX_ATTACHMENT_BYTES
        /\ Oversized(i) =>
              /\ SendIssued(i)
              /\ task[i].att = NoNum
              /\ Calls(i) = 1
        /\ Oversized(i) /\ InSave(i) =>
              /\ Key(i) \in hist.okKeys
              /\ Key(i) \in DOMAIN mem.entries
              /\ mem.entries[Key(i)].fileSize = plugins[i].file.size
              /\ Key(i) \in DOMAIN task[i].payload.entries

C31_Witness ==
    /\ pc = "done"
    /\ hist.sendLog = <<1>>
    /\ disk.k = "json"
    /\ pluginKey(PAlpha) \in hist.okKeys
    /\ pluginKey(PAlpha) \in DOMAIN disk.entries
    /\ Field(disk.entries[pluginKey(PAlpha)], "contentHash") = sha256(MAX_ATTACHMENT_BYTES + 1)

\* C32: a rejected download does not end the delivery: the send is issued
\* without attachment, the run goes on, and the entry set after a successful
\* send has no content hash; a record whose URL the attachment policy excludes
\* is sent without a download.
C32_DownloadFailureTolerated ==
    \A i \in 1..NPlugins :
        /\ task[i].dl = "failed" =>
              /\ SendIssued(i)
              /\ pc = "loop"
              /\ task[i].att = NoNum
              /\ Calls(i) = 1
        /\ task[i].dl = "failed" /\ InSave(i) =>
              /\ Key(i) \in DOMAIN mem.entries
              /\ mem.entries[Key(i)].contentHash = None
        /\ HasUrl(plugins[i]) /\ ~allowsAttachment(plugins[i].file.raw_url) =>
              /\ task[i].ph # "download"
              /\ task[i].dl = "none"
              /\ task[i].att = NoNum
              /\ SendIssued(i) => Calls(i) = 1

C32_Witness ==
    /\ pc = "done"
    /\ plugins = <<PAlpha, PReadme>>
    /\ hist.sendLog = <<1, 2>>
    /\ disk.k = "json"
    /\ hist.okKeys = {pluginKey(PAlpha), pluginKey(PReadme)}
    /\ hist.okKeys \subseteq DOMAIN disk.entries
    /\ Field(disk.entries[pluginKey(PAlpha)], "contentHash") = None


\* ---------------------------------------------------------------------------
\* Calls of set() and save() in one run (cli.ts:59-63, 129-144, 167-169)

\* C33: a run calls set() once per successful delivery and save() once per
\* successful delivery, plus once at the end exactly when the run had no
\* successful delivery.
C33_SaveOncePerDelivery ==
    /\ hist.setCalls = Cardinality(hist.okPos)
    /\ RunOver =>
          hist.saveCalls = IF hist.okPos = {} THEN 1 ELSE Cardinality(hist.okPos)


\* C36: within one run no key is sent successfully twice, and a record
\* whose key an earlier record of the list carries is attempted only if the
\* send of every earlier one failed.
C36_NoKeySentTwiceInRun ==
    /\ \A i, j \in hist.okPos : Key(i) = Key(j) => i = j
    /\ \A n \in DOMAIN hist.sendLog :
          \A i \in 1..(hist.sendLog[n] - 1) :
              HasUrl(plugins[i]) /\ Key(i) = Key(hist.sendLog[n]) /\ Key(i) \notin StartKeys
                 => i \in hist.failedSend


\* C38: a save() that rejects after a successful send does not end the run:
\* the loop goes on, the entry stays in the in-memory snapshot, and the next
\* save() of the run that completes writes it.
SaveFailedAfterSend(i) == i \in hist.okPos /\ task[i].ph = "failed"

LaterRecords(i) ==
    {[plugins[i] EXCEPT !.file.sha = sha, !.file.size = size] :
        sha \in {None, plugins[i].file.sha, "sha-later"}, size \in {NoNum, 5, 10}}

HashOrSizeMatch(plugin, head, entry) ==
    \/ Truthy(plugin.file.sha) /\ plugin.file.sha = Field(entry, "fileSha")
    \/ /\ Field(entry, "fileSize") # NoNum
       /\ Field(entry, "fileSize") \in {DiffMetadata(head, plugin).contentLength, plugin.file.size}

\* C37: an entry set by the delivery loop has no ETag and no Last-Modified;
\* computeDelta drops the record of such an entry as unchanged only when
\* the source hash or a size matches, and returns it as updated whenever the
\* entry has neither a source hash nor a file size.
C37_DeliveredEntriesHaveNoValidators ==
    \A i \in hist.okPos :
        Key(i) \in DOMAIN mem.entries =>
            LET entry == mem.entries[Key(i)]
            IN  /\ Field(entry, "etag") = None
                /\ Field(entry, "lastModified") = None
                /\ \A plugin \in LaterRecords(i), head \in HeadMetas :
                      /\ DeltaOf(plugin, head, mem.entries) = "unchanged"
                            => HashOrSizeMatch(plugin, head, entry)
                      /\ Field(entry, "fileSha") = None /\ Field(entry, "fileSize") = NoNum
                            => DeltaOf(plugin, head, mem.entries) = "updated"

C37_Witness ==
    /\ pc = "done"
    /\ plugins = <<PAlpha, PReadme>>
    /\ hist.okPos = {1, 2}
    /\ hist.synced
    /\ DeltaOf(PAlpha, EmptyMeta, FromJson(disk).entries) = "unchanged"
    /\ Field(mem.entries[pluginKey(PReadme)], "fileSha") = None
    /\ Field(mem.entries[pluginKey(PReadme)], "fileSize") = NoNum
    /\ DeltaOf(PReadme, [etag |-> "etag-1", lastModified |-> "lm-1", contentLength |-> 5],
               FromJson(disk).entries) = "updated"


\* ---------------------------------------------------------------------------
\* Dry run (cli.ts:186-204)

DryRunReturns == ~hist.dry.ran /\ hist'.dry.ran
AttemptedPositions == {hist.sendLog[n] : n \in DOMAIN hist.sendLog}

\* C39: dryRunAction sends nothing and leaves the cache file and the
\* temporary file as they are, and the records it reports as pending are
\* the records a notify run on the same cache file and merged list attempts.
C39_DryRunHasNoEffect ==
    /\ [][DryRunReturns =>
            /\ disk' = disk
            /\ tmp' = tmp
            /\ hist'.sendLog = hist.sendLog
            /\ hist'.sentCount = hist.sentCount
            /\ hist'.saveCalls = hist.saveCalls]_vars
    /\ [](hist.dry.ran /\ RunOver => AttemptedPositions = hist.dry.pending)

C39_Witness ==
    /\ hist.dry.ran
    /\ pc = "done"
    /\ Len(plugins) = 2
    /\ Cardinality(hist.dry.pending) = 1
    /\ AttemptedPositions = hist.dry.pending
    /\ \E i \in 1..NPlugins : HasUrl(plugins[i]) /\ i \notin hist.dry.pending


(***************************************************************************)
(* executeWithRetry (part_000:62-82): one call with attempt = 0, as made   *)
(* by getJson, getFile and head.  operation() resolves or rejects with an  *)
(* AxiosError that has a code, a response status, both or neither.         *)
(***************************************************************************)
RETRY_BASE_DELAY_MS == 500

\* part_000:72
isNetworkIssue(error) == error.code \in {"ECONNRESET", "ETIMEDOUT", "ECONNABORTED"}

\* Variant: every response status is retried.
isRetryableStatus_AnyStatus(error) == error.status # NoNum

\* part_000:71, 73
isRetryableStatus(error) == error.status # NoNum /\ error.status >= 500 /\ error.status < 600

\* part_000:91, 107, 123: executeWithRetry(operation, 0); operation() is called.
CallExecuteWithRetry ==
    /\ http.ph = "idle"
    /\ http' = [http EXCEPT !.ph = "request", !.attempt = 0, !.requests = 1]
    /\ UNCHANGED <<pipelineVars, webhookUrl, send, fn, delta>>

\* part_000:64: operation() resolved, the response is returned.
OperationResolves ==
    /\ http.ph = "request"
    /\ http' = [http EXCEPT !.ph = "returned"]
    /\ UNCHANGED <<pipelineVars, webhookUrl, send, fn, delta>>

\* part_000:65-79: operation() rejected; the error is thrown again, or the
\* backoff is computed and sleep() is called.
OperationRejects(error) ==
    /\ http.ph = "request"
    /\ LET nextAttempt == http.attempt + 1
           retried == /\ nextAttempt < RETRY_ATTEMPTS
                      /\ isNetworkIssue(error) \/ isRetryableStatus(error)
           backoff == RETRY_BASE_DELAY_MS * 2 ^ http.attempt
       IN  http' = [http EXCEPT !.ph = IF retried THEN "sleep" ELSE "thrown",
                                !.errors = Append(@, error),
                                !.sleeps = IF retried THEN Append(@, backoff) ELSE @]
    /\ UNCHANGED <<pipelineVars, webhookUrl, send, fn, delta>>

\* part_000:79-80: sleep() resolved; executeWithRetry(operation, nextAttempt).
SleepEnds ==
    /\ http.ph = "sleep"
    /\ http' = [http EXCEPT !.ph = "request", !.attempt = @ + 1, !.requests = @ + 1]
    /\ UNCHANGED <<pipelineVars, webhookUrl, send, fn, delta>>

RetryNext ==
    \/ CallExecuteWithRetry
    \/ OperationResolves
    \/ \E code \in {None, "ECONNRESET", "ETIMEDOUT", "ECONNABORTED", "ENOTFOUND"},
          status \in {NoNum, 404, 499, 500, 599, 600} :
          OperationRejects([code |-> code, status |-> status])
    \/ SleepEnds

RetrySpec == FnInit /\ [][RetryNext]_vars

\* ---------------------------------------------------------------------------
Retryable(error) ==
    \/ error.code = "ECONNRESET" \/ error.code = "ETIMEDOUT" \/ error.code = "ECONNABORTED"
    \/ error.status \in 500..599

\* C34: executeWithRetry calls the operation at most RETRY_ATTEMPTS (3)
\* times; a further call is made only after a network error or a 5xx
\* answer, and after a sleep of RETRY_BASE_DELAY_MS (500) * 2^attempt; any
\* other error is thrown again at once; a response after one retried
\* error is returned after exactly two calls.
C34_RetryOnlyTransientErrors ==
    /\ http.requests <= RETRY_ATTEMPTS
    /\ Len(http.sleeps) <= 2
    /\ \A n \in DOMAIN http.sleeps :
          /\ http.sleeps[n] = 500 * 2 ^ (n - 1)
          /\ Retryable(http.errors[n])
    /\ http.ph \in {"request", "returned"} =>
          /\ http.requests = Len(http.errors) + 1
          /\ Len(http.sleeps) = Len(http.errors)
    /\ http.ph = "sleep" => Len(http.sleeps) = http.requests /\ Len(http.errors) = http.requests
    /\ http.ph = "thrown" =>
          /\ http.requests = Len(http.errors)
          /\ Len(http.sleeps) = Len(http.errors) - 1
          /\ ~Retryable(http.errors[Len(http.errors)]) \/ http.requests = 3
    /\ http.ph = "returned" /\ Len(http.errors) = 1 => http.requests = 2

C34_Witness ==
    /\ http.ph = "returned"
    /\ http.errors = <<[code |-> None, status |-> 500]>>
    /\ http.sleeps = <<500>>
    /\ http.requests = 2


(***************************************************************************)
(* fetchDeleted and filterDeleted (part_001:103-143): one evaluation on    *)
(* the answer to the request for SOURCES.DELETED.                          *)
(***************************************************************************)
\* The answer: the request rejected, or its response.data.
DeletedResponse(t, repositories, elems) ==
    [t |-> t, repositories |-> [t |-> repositories, elems |-> elems]]

DeletedResponses ==
    {DeletedResponse("rejected", "undefined", <<>>),
     DeletedResponse("string", "undefined", <<>>),
     DeletedResponse("object", "undefined", <<>>),
     DeletedResponse("object", "array", <<>>),
     DeletedResponse("object", "array", <<[t |-> "string", v |-> "O/Alpha"]>>),
     DeletedResponse("object", "array", <<[t |-> "number", v |-> "7"], [t |-> "string", v |-> "o/beta"],
                                         [t |-> "string", v |-> ""]>>)}

\* part_001:103-118
fetchDeleted(response) ==
    IF response.t = "rejected" THEN NoDeleted
    ELSE IF ~isRecord(response) \/ response.repositories.t # "array" THEN NoDeleted
    ELSE LET strings == SelectSeq(response.repositories.elems, LAMBDA e : e.t = "string")
         IN  Deleted([i \in DOMAIN strings |-> strings[i].v])

\* Records that differ in their repository reference.
FilterRecords ==
    {Plugin("Upper", "https://h/upper.cs", "upper.cs", None, NoNum, "O/Alpha"),
     Plugin("Lower", "https://h/lower.cs", "lower.cs", None, NoNum, "o/alpha"),
     Plugin("Beta", "https://h/beta.cs", "beta.cs", None, NoNum, "o/beta"),
     Plugin("Gamma", "https://h/gamma.cs", "gamma.cs", None, NoNum, "o/gamma"),
     Plugin("Blank", "https://h/blank.cs", "blank.cs", None, NoNum, ""),
     Plugin("Nameless", "https://h/nameless.cs", "nameless.cs", None, NoNum, None),
     [Plugin("Bare", "https://h/bare.cs", "bare.cs", None, NoNum, None) EXCEPT !.repository = NoRepo]}

\* cli.ts:25-40: filterDeleted on the list and on what fetchDeleted returned.
EvalFilterDeleted(items, response) ==
    /\ fn.op = "none"
    /\ fn' = [op |-> "filterDeleted", items |-> items, response |-> response,
              out |-> filterDeleted(items, fetchDeleted(response))]
    /\ UNCHANGED <<pipelineVars, webhookUrl, send, delta, http>>

FilterNext ==
    \E items \in UNION {[1..n -> FilterRecords] : n \in 0..MaxLen}, response \in DeletedResponses :
        EvalFilterDeleted(items, response)

FilterSpec == FnInit /\ [][FilterNext]_vars

\* ---------------------------------------------------------------------------
SameIgnoringCase(a, b) == a = b \/ {a, b} = {"o/alpha", "O/Alpha"}

ListUsable(response) == response.t = "object" /\ response.repositories.t = "array"

ListedNames(response) ==
    {response.repositories.elems[i].v :
        i \in {j \in DOMAIN response.repositories.elems : response.repositories.elems[j].t = "string"}}

Listed(plugin, response) ==
    /\ plugin.repository.defined
    /\ plugin.repository.full_name \notin {None, ""}
    /\ \E name \in ListedNames(response) : SameIgnoringCase(name, plugin.repository.full_name)

KeptPositions(items, response) ==
    {i \in DOMAIN items : ~ListUsable(response) \/ ~Listed(items[i], response)}

\* C35: filterDeleted returns, in the order of the input, exactly the
\* records that have no repository full name or whose full name equals, up
\* to case, no string of the deleted list; when the list could not be
\* fetched or is not an object with a repositories array, every record is
\* returned.
C35_FilterDeletedKeepsUnlisted ==
    fn.op = "filterDeleted" =>
        LET kept == KeptPositions(fn.items, fn.response)
            Nth(j) == CHOOSE i \in kept : Cardinality({k \in kept : k < i}) = j - 1
        IN  /\ Len(fn.out) = Cardinality(kept)
            /\ \A j \in 1..Len(fn.out) : fn.out[j] = fn.items[Nth(j)]
            /\ ~ListUsable(fn.response) => fn.out = fn.items

C35_Witness ==
    /\ fn.op = "filterDeleted"
    /\ Len(fn.items) = 2
    /\ fn.items[1].repository.full_name = "o/alpha"
    /\ fn.items[2].repository.full_name = "o/gamma"
    /\ ListedNames(fn.response) = {"O/Alpha"}
    /\ fn.out = <<fn.items[2]>>


\* ---------------------------------------------------------------------------
AllClassified == \A i \in Positions(delta) : delta.st[i] = "done"

\* C40: a call of computeDelta returns, every record classified, for
\* every size of the two limiters and every list, when each HEAD request
\* is eventually answered or fails.
C40_ComputeDeltaCompletes ==
    (delta.ph = "running") ~> (delta.ph = "returned" /\ AllClassified)

C40_Witness ==
    /\ delta.ph = "returned"
    /\ ConcurrencyLimit(delta.concurrency) = 1
    /\ Len(delta.plugins) = MaxPlugins
    /\ AllClassified
    /\ \E i \in Positions(delta) : delta.failed[i]
    /\ \E i \in Positions(delta) : HasUrl(delta.plugins[i]) /\ ~delta.failed[i]

====
